---------------------------- MODULE Spec2Model ----------------------------
(***************************************************************************)
(* Model of the snowflake container launcher: Command::spawn and           *)
(* Command::run (snowflake/src/container), the kill guard, the child's     *)
(* pre-execve sequence and the part of the kernel they talk to (one pipe,  *)
(* one child process, its pidfd, the wait status).                         *)
(*                                                                         *)
(* Byte strings (pipe contents, error contexts) are sequences of numbers.  *)
(* An errno result is a number: 0 is success, anything else the errno.     *)
(***************************************************************************)
EXTENDS Integers, Sequences, FiniteSets, TLC

----------------------------------------------------------------------------
(* Bounds of the model. *)

\* Longest mount list of a Command.
MaxMounts == 2
\* The longest string handed to with_cstr.
MaxStrLen == 2
\* The most strings pushed to one CStringArray.
MaxPushes == 3
\* The number of parent tasks that spawn a container concurrently.
NTasks == 2
\* The longest context label (in characters) of an error packet.
MaxCtxLen == 2

----------------------------------------------------------------------------
(* Program constants. *)

\* i32::MAX, the fallback of try_into().unwrap_or(i32::MAX).
I32Max == 2147483647

\* os::EAGAIN, what write_file reports for a short write.
EAGAIN == 11

\* os::SIGKILL, the signal the kill guard sends.
SIGKILL == 9

\* The status the child passes to _exit after reporting an error.
ChildExitCode == 1

----------------------------------------------------------------------------
(* The environment: what the kernel may answer. *)

\* Errnos a failing system call of the child may report (ENOENT, EACCES).
Errnos == {2, 13}

\* Errnos the parent's system calls may report: readlink (ENOENT, EACCES),
\* pipe2 (EMFILE), clone3 (EPERM, ENOMEM), read (EIO), poll (EINTR),
\* mkdirat and symlinkat (EACCES).
ParentErrnos ==
    [readlink |-> {2, 13}, pipe2 |-> {24}, clone3 |-> {1, 12},
     read |-> {5}, poll |-> {4}, mkdirat |-> {13}, symlinkat |-> {13}]

\* What kill(2), waitpid(2), dup2(2) report for a process or descriptor
\* that is not there, and mkdirat(2), symlinkat(2) for a parent directory
\* that is not there or a path that is.
KernelErrno ==
    [ESRCH |-> 3, ECHILD |-> 10, EBADF |-> 9, ENOENT |-> 2, EEXIST |-> 17]

\* Raw wait statuses with which the launched program may terminate:
\* exit(0), exit(1), killed by signal 15.
ProgramStatuses == {0, 256, 15}

Duration(s, n) == [secs |-> s, nanos |-> n]

\* Timeouts handed to run: 1.5 ms, and one millisecond more than i32::MAX
\* milliseconds.
Timeouts == { Duration(0, 1500000), Duration(2147483, 648000000) }

\* Instants (time elapsed since poll was entered) the clock may show.
Instants ==
    { Duration(0, 0), Duration(0, 1000000), Duration(0, 1500000),
      Duration(2147483, 647000000), Duration(2147483, 648000000) }

DurationLE(a, b) ==
    \/ a.secs < b.secs
    \/ a.secs = b.secs /\ a.nanos <= b.nanos

----------------------------------------------------------------------------
(* Context labels, as the bytes of the string literals in the source. *)

\* "/proc/self/setgroups", "/proc/self/uid_map", "/proc/self/gid_map",
\* "fchdir", "mount", "chroot", "chroot_chdir", "stdin", "stdout", "stderr",
\* "execve"
Label(step) ==
    CASE step = "setgroups" ->
           <<47, 112, 114, 111, 99, 47, 115, 101, 108, 102, 47,
             115, 101, 116, 103, 114, 111, 117, 112, 115>>
      [] step = "uid_map" ->
           <<47, 112, 114, 111, 99, 47, 115, 101, 108, 102, 47,
             117, 105, 100, 95, 109, 97, 112>>
      [] step = "gid_map" ->
           <<47, 112, 114, 111, 99, 47, 115, 101, 108, 102, 47,
             103, 105, 100, 95, 109, 97, 112>>
      [] step = "fchdir"       -> <<102, 99, 104, 100, 105, 114>>
      [] step = "mount"        -> <<109, 111, 117, 110, 116>>
      [] step = "chroot"       -> <<99, 104, 114, 111, 111, 116>>
      [] step = "chroot_chdir" ->
           <<99, 104, 114, 111, 111, 116, 95, 99, 104, 100, 105, 114>>
      [] step = "stdin"        -> <<115, 116, 100, 105, 110>>
      [] step = "stdout"       -> <<115, 116, 100, 111, 117, 116>>
      [] step = "stderr"       -> <<115, 116, 100, 101, 114, 114>>
      [] step = "execve"       -> <<101, 120, 101, 99, 118, 101>>

\* "readlink: fchdir_magic_link"
CtxReadlink ==
    <<114, 101, 97, 100, 108, 105, 110, 107, 58, 32, 102, 99, 104, 100, 105,
      114, 95, 109, 97, 103, 105, 99, 95, 108, 105, 110, 107>>
\* "pipe2"
CtxPipe2 == <<112, 105, 112, 101, 50>>
\* "clone3"
CtxClone3 == <<99, 108, 111, 110, 101, 51>>
\* "read: pipe_r"
CtxReadPipe == <<114, 101, 97, 100, 58, 32, 112, 105, 112, 101, 95, 114>>
\* "child_pre_execve"
CtxChildPreExecve ==
    <<99, 104, 105, 108, 100, 95, 112, 114, 101, 95, 101, 120, 101, 99,
      118, 101>>
\* "poll"
CtxPoll == <<112, 111, 108, 108>>
\* "waitpid"
CtxWaitpid == <<119, 97, 105, 116, 112, 105, 100>>

----------------------------------------------------------------------------
(* container::Error and RunError. *)

\* Error::from_raw_os_error(code, context), and what .context(label) makes
\* of an io::Error that carries an errno.
FromRawOsError(code, context) ==
    [kind |-> "os", code |-> code, msg |-> "", context |-> context]

\* Error::other(msg, context): an error without an OS code.
ErrorOther(msg, context) ==
    [kind |-> "other", code |-> 0, msg |-> msg, context |-> context]

\* error.inner.raw_os_error().unwrap_or(-1)
RawOsErrorOr(error) == IF error.kind = "os" THEN error.code ELSE -1

NoValue == [tag |-> "none"]
SpawnOk == [tag |-> "Ok", pid |-> "child", pidfd |-> "pidfd"]
SpawnErr(error) == [tag |-> "Err", err |-> error]
RunOk == [tag |-> "Ok"]
Container(error) == [tag |-> "Container", err |-> error]
Timeout(duration) == [tag |-> "Timeout", dur |-> duration]
Unsuccessful(status) == [tag |-> "Unsuccessful", status |-> status]

----------------------------------------------------------------------------
(* Conversions. *)

\* Mutant of ToNeBytes: the bytes in big-endian order (to_be_bytes).
ToNeBytes_BigEndian(e) ==
    << (e \div 16777216) % 256, (e \div 65536) % 256, (e \div 256) % 256,
       e % 256 >>

\* i32::to_ne_bytes on a little-endian target: two's complement, low byte
\* first.
ToNeBytes(e) ==
    << e % 256, (e \div 256) % 256, (e \div 65536) % 256,
       (e \div 16777216) % 256 >>

\* Mutant of FromNeBytes: the sign bit is dropped.
FromNeBytes_SignDropped(b) ==
    b[1] + 256 * b[2] + 65536 * b[3] + 16777216 * (b[4] % 128)

\* i32::from_ne_bytes on a little-endian target.
FromNeBytes(b) ==
    b[1] + 256 * b[2] + 65536 * b[3]
      + 16777216 * (IF b[4] >= 128 THEN b[4] - 256 ELSE b[4])

\* str::as_bytes: the UTF-8 encoding of a sequence of code points.
EncodeChar(c) ==
    IF c < 128 THEN <<c>>
    ELSE IF c < 2048 THEN <<192 + (c \div 64), 128 + (c % 64)>>
    ELSE IF c < 65536
      THEN <<224 + (c \div 4096), 128 + ((c \div 64) % 64), 128 + (c % 64)>>
    ELSE <<240 + (c \div 262144), 128 + ((c \div 4096) % 64),
           128 + ((c \div 64) % 64), 128 + (c % 64)>>

RECURSIVE AsBytes(_)
AsBytes(s) ==
    IF s = <<>> THEN <<>> ELSE EncodeChar(Head(s)) \o AsBytes(Tail(s))

IsCont(b) == b >= 128 /\ b <= 191

\* String::from_utf8_lossy: code points of the valid sequences, U+FFFD
\* (65533) for each maximal invalid part.
RECURSIVE FromUtf8Lossy(_)
FromUtf8Lossy(b) ==
    IF b = <<>> THEN <<>>
    ELSE LET b1 == b[1]
             n  == Len(b)
         IN  IF b1 < 128 THEN <<b1>> \o FromUtf8Lossy(Tail(b))
             ELSE IF b1 >= 194 /\ b1 <= 223 /\ n >= 2 /\ IsCont(b[2])
               THEN <<(b1 - 192) * 64 + (b[2] - 128)>>
                      \o FromUtf8Lossy(SubSeq(b, 3, n))
             ELSE IF b1 >= 224 /\ b1 <= 239 /\ n >= 2 /\ IsCont(b[2])
                     /\ (b1 = 224 => b[2] >= 160)
                     /\ (b1 = 237 => b[2] <= 159)
               THEN IF n >= 3 /\ IsCont(b[3])
                      THEN <<(b1 - 224) * 4096 + (b[2] - 128) * 64
                               + (b[3] - 128)>>
                             \o FromUtf8Lossy(SubSeq(b, 4, n))
                      ELSE <<65533>> \o FromUtf8Lossy(SubSeq(b, 3, n))
             ELSE IF b1 >= 240 /\ b1 <= 244 /\ n >= 2 /\ IsCont(b[2])
                     /\ (b1 = 240 => b[2] >= 144)
                     /\ (b1 = 244 => b[2] <= 143)
               THEN IF n >= 3 /\ IsCont(b[3])
                      THEN IF n >= 4 /\ IsCont(b[4])
                             THEN <<(b1 - 240) * 262144 + (b[2] - 128) * 4096
                                      + (b[3] - 128) * 64 + (b[4] - 128)>>
                                    \o FromUtf8Lossy(SubSeq(b, 5, n))
                             ELSE <<65533>>
                                    \o FromUtf8Lossy(SubSeq(b, 4, n))
                      ELSE <<65533>> \o FromUtf8Lossy(SubSeq(b, 3, n))
             ELSE <<65533>> \o FromUtf8Lossy(Tail(b))

\* Mutant of PollTimeoutMillis: the fallback is -1 (unwrap_or(-1)).
PollTimeoutMillis_FallbackNegative(d) ==
    IF \/ d.secs < I32Max \div 1000
       \/ d.secs = I32Max \div 1000 /\ d.nanos \div 1000000 <= I32Max % 1000
    THEN d.secs * 1000 + d.nanos \div 1000000
    ELSE -1

\* timeout.as_millis().try_into().unwrap_or(i32::MAX): the whole
\* milliseconds of the Duration when they fit an i32, else i32::MAX.
PollTimeoutMillis(d) ==
    IF \/ d.secs < I32Max \div 1000
       \/ d.secs = I32Max \div 1000 /\ d.nanos \div 1000000 <= I32Max % 1000
    THEN d.secs * 1000 + d.nanos \div 1000000
    ELSE I32Max

\* Whether at least ms milliseconds have elapsed at instant t.
ElapsedMillis(t, ms) ==
    DurationLE(Duration(ms \div 1000, (ms % 1000) * 1000000), t)

\* Mutant of Success: only the exit code is looked at, so that a process
\* killed by a signal counts as successful.
Success_ExitCodeOnly(ws) == (ws \div 256) % 256 = 0

\* ExitStatus::success: the process exited, with code 0.
WIFEXITED(ws) == ws % 128 = 0
WEXITSTATUS(ws) == (ws \div 256) % 256
Success(ws) == WIFEXITED(ws) /\ WEXITSTATUS(ws) = 0


----------------------------------------------------------------------------
(* Command and Stdio (container/mod.rs). *)

Inherit == [kind |-> "Inherit", oldfd |-> -1]
Close == [kind |-> "Close", oldfd |-> -1]
Dup2(oldfd) == [kind |-> "Dup2", oldfd |-> oldfd]

\* Descriptors of the child that the pre-exec sequence may touch: 0, 1, 2
\* and the log file (3).
ChildFds == 0 .. 3

\* An open descriptor (the file it refers to, its close-on-exec flag) and
\* a closed one.
OpenFd(file, cloexec) == [file |-> file, cloexec |-> cloexec]
ClosedFd == [file |-> "closed", cloexec |-> FALSE]

\* ActionContext.log_file: the descriptor number of the log file, with the
\* close-on-exec flag it was opened with.  Number 3 is the first free one
\* of a process started with its three standard streams; number 1 is what
\* a process started without a standard output gets.
LogFiles ==
    { [fd |-> 3, cloexec |-> TRUE], [fd |-> 1, cloexec |-> TRUE],
      [fd |-> 1, cloexec |-> FALSE] }

\* The descriptor table the child inherits from the parent at clone3 (the
\* flags do not include CLONE_FILES: the child gets a copy), for a parent
\* whose log file is log.
InheritedFds(log) ==
    [fd \in ChildFds |->
       IF fd = log.fd THEN OpenFd("log", log.cloexec)
       ELSE CASE fd = 0 -> OpenFd("stdin", FALSE)
              [] fd = 1 -> OpenFd("stdout", FALSE)
              [] fd = 2 -> OpenFd("stderr", FALSE)
              [] fd = 3 -> ClosedFd]

\* Stdio settings: those of a run action (actions/run.rs) and those of the
\* standalone driver (bin/snowflake.rs).
StdioChoices ==
    { [stdin |-> Close, stdout |-> Dup2(3), stderr |-> Dup2(3)],
      [stdin |-> Close, stdout |-> Inherit, stderr |-> Inherit] }

\* The Command values run is called on.  A mount is named by its position.
Commands ==
    { [ setgroups |-> <<100, 101, 110, 121, 10>>,
        uid_map   |-> <<48, 32, 49, 48, 48, 48, 32, 49, 10>>,
        gid_map   |-> <<48, 32, 49, 48, 48, 48, 32, 49, 10>>,
        mounts    |-> [i \in 1 .. n |-> i],
        stdin     |-> io.stdin,
        stdout    |-> io.stdout,
        stderr    |-> io.stderr ] :
      n \in 0 .. MaxMounts, io \in StdioChoices }

----------------------------------------------------------------------------
(* The run action (actions/run.rs) and its configuration (config.rs).      *)
(* Paths below the scratch directory and in the package store are          *)
(* sequences of their components; mount flags are sets of flag names, of   *)
(* which | is the union.                                                   *)

Mount(source, target, filesystemtype, mountflags, data) ==
    [source |-> source, target |-> target,
     filesystemtype |-> filesystemtype, mountflags |-> mountflags,
     data |-> data]

\* Mutant of MountBindRdonly: the read-only remount is pushed before the
\* bind.
MountBindRdonly_RemountFirst(mounts, source, target) ==
    LET flags1 == {"MS_BIND", "MS_REC"}
        flags2 == flags1 \cup {"MS_RDONLY", "MS_REMOUNT"}
    IN  Append(Append(mounts, Mount("none", target, "", flags2, "")),
               Mount(source, target, "", flags1, ""))

\* mount_bind_rdonly(mounts, source, target): the list after the two pushes.
MountBindRdonly(mounts, source, target) ==
    LET flags1 == {"MS_BIND", "MS_REC"}
        flags2 == flags1 \cup {"MS_RDONLY", "MS_REMOUNT"}
    IN  Append(Append(mounts, Mount(source, target, "", flags1, "")),
               Mount("none", target, "", flags2, ""))

\* Mutant of CollectMounts: procfs is pushed before the remount of "/".
CollectMounts_ProcFirst ==
    LET m0 == <<>>
        m1 == Append(m0, Mount("proc", "proc", "proc",
                               {"MS_NODEV", "MS_NOEXEC", "MS_NOSUID"}, ""))
        m2 == Append(m1, Mount("none", "/", "",
                               {"MS_PRIVATE", "MS_REC"}, ""))
    IN  MountBindRdonly(m2, "/nix/store", "nix/store")

\* collect_mounts()
CollectMounts ==
    LET m0 == <<>>
        m1 == Append(m0, Mount("none", "/", "",
                               {"MS_PRIVATE", "MS_REC"}, ""))
        m2 == Append(m1, Mount("proc", "proc", "proc",
                               {"MS_NODEV", "MS_NOEXEC", "MS_NOSUID"}, ""))
    IN  MountBindRdonly(m2, "/nix/store", "nix/store")

\* The configuration the program is built with: the store path of the bash
\* package and the store path of the coreutils package.
Configs ==
    { [bash_path |-> <<"nix", "store", b>>,
       coreutils_path |-> <<"nix", "store", "coreutils-9.0">>] :
      b \in {"bash-5.1", "bash-5.2"} }

\* config::BASH_PATH and config::COREUTILS_PATH: both are
\* env!("SNOWFLAKE_BASH_PATH").
BASH_PATH(config) == config.bash_path
COREUTILS_PATH(config) == config.bash_path

\* Mutant of RootDirs: nix/store is created before nix.
RootDirs_StoreBeforeNix ==
    << [path |-> <<"bin">>, mode |-> 493],
       [path |-> <<"nix", "store">>, mode |-> 493],
       [path |-> <<"nix">>, mode |-> 493],
       [path |-> <<"proc">>, mode |-> 365],
       [path |-> <<"usr">>, mode |-> 493],
       [path |-> <<"usr", "bin">>, mode |-> 493],
       [path |-> <<"build">>, mode |-> 493] >>

\* The directories perform_run_action creates, in the order of its mkdirat
\* calls, with the mode it passes (493 = 0o755, 365 = 0o555).
RootDirs ==
    << [path |-> <<"bin">>, mode |-> 493],
       [path |-> <<"nix">>, mode |-> 493],
       [path |-> <<"nix", "store">>, mode |-> 493],
       [path |-> <<"proc">>, mode |-> 365],
       [path |-> <<"usr">>, mode |-> 493],
       [path |-> <<"usr", "bin">>, mode |-> 493],
       [path |-> <<"build">>, mode |-> 493] >>

\* The symlinks perform_run_action creates, in the order of its symlinkat
\* calls: format!("{}/bin/bash", BASH_PATH) at bin/sh and
\* format!("{}/bin/env", COREUTILS_PATH) at usr/bin/env.
Symlinks(config) ==
    << [target |-> BASH_PATH(config) \o <<"bin", "bash">>,
        linkpath |-> <<"bin", "sh">>],
       [target |-> COREUTILS_PATH(config) \o <<"bin", "env">>,
        linkpath |-> <<"usr", "bin", "env">>] >>

Dir(path, mode) == [path |-> path, kind |-> "dir", mode |-> mode]
Symlink(path, target) == [path |-> path, kind |-> "symlink", target |-> target]

\* Whether the directory that is to hold path is there (the scratch
\* directory itself always is).
ParentExists(fs, path) ==
    \/ Len(path) = 1
    \/ \E x \in fs : x.kind = "dir" /\ x.path = SubSeq(path, 1, Len(path) - 1)

\* What mkdirat(2) and symlinkat(2) answer for a new entry at path when the
\* kernel has no other objection than e (0 or an errno).
CreateResult(fs, path, e) ==
    IF \E x \in fs : x.path = path THEN KernelErrno.EEXIST
    ELSE IF ~ParentExists(fs, path) THEN KernelErrno.ENOENT
    ELSE e

\* os::mkdirat(&context.scratch_dir, pathname, mode)
Mkdirat(fs, pathname, mode, e) ==
    LET res == CreateResult(fs, pathname, e)
    IN  [res |-> res,
         fs |-> IF res = 0 THEN fs \cup {Dir(pathname, mode)} ELSE fs]

\* os::symlinkat(target, &context.scratch_dir, linkpath)
Symlinkat(fs, target, linkpath, e) ==
    LET res == CreateResult(fs, linkpath, e)
    IN  [res |-> res,
         fs |-> IF res = 0 THEN fs \cup {Symlink(linkpath, target)} ELSE fs]

\* What the scratch directory may hold when perform_run_action is called:
\* nothing, or one entry left behind.
ScratchStates ==
    {{}} \cup { {Dir(p, 448)} : p \in {<<"bin">>, <<"nix">>, <<"build">>} }
         \cup { {[path |-> <<"proc">>, kind |-> "file"]} }

\* ActionContext values: the log file.
Contexts == { [log_file |-> log] : log \in LogFiles }

\* info.timeout of the run actions.
ActionTimeouts == { Duration(0, 1500000) }

\* The Command run_command builds: the mounts of collect_mounts, stdin
\* closed, stdout and stderr the log file.
RunActionCommand(context) ==
    [ setgroups |-> <<100, 101, 110, 121, 10>>,
      uid_map   |-> <<48, 32, 49, 48, 48, 48, 32, 49, 10>>,
      gid_map   |-> <<48, 32, 49, 48, 48, 48, 32, 49, 10>>,
      mounts    |-> CollectMounts,
      stdin     |-> Close,
      stdout    |-> Dup2(context.log_file.fd),
      stderr    |-> Dup2(context.log_file.fd) ]

\* RunActionError::Io(error)
Io(code) == [tag |-> "Io", code |-> code]

----------------------------------------------------------------------------
(* State. *)

VARIABLES
    entry,     \* what was called: "run" or "perform_run_action"
    config,    \* the configuration the program was built with
    context,   \* the ActionContext (the log file)
    fs,        \* the entries of the scratch directory
    ai,        \* index of the next mkdirat / symlinkat of the run action
    aerr,      \* the errno of the run action's failed mkdirat / symlinkat
    cmd,       \* the Command (self)
    timeout,   \* the Duration handed to run
    ppc,       \* where the parent is in run / spawn
    pfds,      \* descriptors the parent owns: pipe_r, pipe_w, pidfd
    buf,       \* what read_to_end collected
    nread,     \* what read_to_end returned: the count, -1 for Err, -2 before
    npolled,   \* what poll returned: the count, -2 before it returns Ok
    guards,    \* the kill guards of spawn and of run
    calls,     \* the parent's kill and waitpid calls, in order
    spawned,   \* what spawn returned
    result,    \* what run returns
    pollms,    \* the timeout argument given to poll
    clock,     \* time elapsed since poll was entered
    cst,       \* the child process: none, preexec, program, zombie, reaped
    cpc,       \* the child's next pre-exec step
    mi,        \* index of the mount the child is at
    cerr,      \* the error child_pre_execve returned
    csteps,    \* the pre-exec steps the child executed, with their results
    cfd,       \* the child's descriptors 0..3
    cpipe,     \* the pipe ends the child holds: r, w
    pipe,      \* the bytes written to the pre-exec pipe
    wstatus,   \* the raw wait status of the terminated child
    unit,      \* the library function exercised on its own, if any
    mounts,    \* a Vec<Mount> under construction
    mcall,     \* the last call of mount_bind_rdonly: list before, arguments
    oscall,    \* the last call of with_cstr or of a wrapper taking paths
    elements,  \* the elements of a CStringArray
    pushed,    \* the strings pushed to that CStringArray, in order
    fcall,     \* the last call of a function exercised on its own
    ofds,      \* concurrent spawns: the pipe ends open in the process
    tasks,     \* concurrent spawns: each parent task's place, buf, result
    kids,      \* concurrent spawns: each child's state, pipe ends, error
    pipes      \* concurrent spawns: the bytes in each task's pipe

mountVars == <<mounts, mcall>>
cstrVars == <<oscall>>
arrayVars == <<elements, pushed>>
callVars == <<fcall>>
libVars == <<unit, mountVars, cstrVars, arrayVars, callVars>>
concVars == <<ofds, tasks, kids, pipes>>
actionVars == <<entry, config, context, fs, ai, aerr>>
inputVars == <<cmd, timeout, actionVars, libVars, concVars>>
parentVars ==
    <<ppc, pfds, buf, nread, npolled, guards, calls, spawned, result, pollms,
      clock>>
childVars == <<cpc, mi, cerr, csteps, cfd>>
kernelVars == <<cst, cpipe, pipe, wstatus>>
vars == <<inputVars, parentVars, childVars, kernelVars>>

NoGuard == [st |-> "none", forgets |-> 0, fires |-> 0]
NoError == FromRawOsError(0, <<>>)

\* The state before anything was called.
InitRest ==
    /\ ai = 1
    /\ aerr = 0
    /\ pfds = {"log_file"}
    /\ buf = <<>>
    /\ nread = -2
    /\ npolled = -2
    /\ guards = [g \in {"spawn", "run"} |-> NoGuard]
    /\ calls = <<>>
    /\ spawned = NoValue
    /\ result = NoValue
    /\ pollms = 0
    /\ clock = Duration(0, 0)
    /\ cst = "none"
    /\ cpc = "close_r"
    /\ mi = 0
    /\ cerr = NoError
    /\ csteps = <<>>
    /\ cfd = InheritedFds(context.log_file)
    /\ cpipe = {}
    /\ pipe = <<>>
    /\ wstatus = 0

\* Command::run is called on a Command, or perform_run_action on a scratch
\* directory.
InitEntry ==
    \/ /\ entry = "run"
       /\ config \in {c \in Configs : c.bash_path[3] = "bash-5.1"}
       /\ context \in {c \in Contexts : c.log_file.fd = 3}
       /\ fs = {}
       /\ cmd \in Commands
       /\ timeout \in Timeouts
       /\ ppc = "readlink"
    \/ /\ entry = "perform_run_action"
       /\ config \in Configs
       /\ context \in Contexts
       /\ fs \in ScratchStates
       /\ cmd = RunActionCommand(context)
       /\ timeout \in ActionTimeouts
       /\ ppc = "mkdirat"

\* No library function is exercised on its own.
LibIdle ==
    /\ unit = "none"
    /\ mounts = <<>>
    /\ mcall = NoValue
    /\ oscall = NoValue
    /\ elements = <<>>
    /\ pushed = <<>>
    /\ fcall = NoValue

\* The parent tasks that spawn containers concurrently.
Tasks == 1 .. NTasks

\* No concurrent spawns are under way.
ConcIdle ==
    /\ ofds = {}
    /\ tasks = [t \in Tasks |-> [pc |-> "none", buf |-> <<>>,
                                 result |-> NoValue]]
    /\ kids = [t \in Tasks |-> [st |-> "none", fds |-> {}, err |-> NoValue,
                                sent |-> <<>>]]
    /\ pipes = [t \in Tasks |-> <<>>]

Init ==
    /\ InitEntry
    /\ LibIdle
    /\ ConcIdle
    /\ InitRest


----------------------------------------------------------------------------
(* The kernel's side of kill(2) and waitpid(2) on the child. *)

\* kill(pid, SIGKILL): fails with ESRCH once the child has been reaped;
\* a zombie takes the signal without effect.
KillResult == IF cst = "reaped" THEN KernelErrno.ESRCH ELSE 0

KillEffect ==
    IF cst \in {"preexec", "program"}
    THEN /\ cst' = "zombie"
         /\ wstatus' = SIGKILL
         /\ cpipe' = {}
    ELSE UNCHANGED <<cst, wstatus, cpipe>>

\* waitpid(pid, 0) returns once the child is a zombie (and reaps it) or is
\* no child of the caller any more (ECHILD); until then it blocks.
WaitpidReturns == cst \in {"zombie", "reaped"}
WaitpidResult == IF cst = "zombie" THEN 0 ELSE KernelErrno.ECHILD

\* KillGuard::new(pid)
KillGuardNew(g) == [guards EXCEPT ![g].st = "armed"]

\* Mutant of KillGuardForget: the guard stays armed.
KillGuardForget_StillArmed(g) == guards

\* forget(kill_guard)
KillGuardForget(g) ==
    [guards EXCEPT ![g].st = "forgotten", ![g].forgets = @ + 1]

\* The guard goes out of scope: drop starts.
KillGuardDropped(g) ==
    [guards EXCEPT ![g].st = "kill", ![g].fires = @ + 1]

\* Mutant of KillGuardDropKill: a failed kill ends the drop (os::kill(..)?
\* in a function returning a Result).
KillGuardDropKill_StopOnError(g) ==
    /\ guards[g].st = "kill"
    /\ calls' = Append(calls, [by |-> g, call |-> "kill", res |-> KillResult])
    /\ KillEffect
    /\ guards' = [guards EXCEPT
                    ![g].st = IF KillResult = 0 THEN "waitpid" ELSE "dropped"]
    /\ UNCHANGED <<inputVars, ppc, pfds, buf, nread, npolled, spawned,
                   result, pollms, clock, childVars, pipe>>

\* KillGuard::drop, first statement: let _ = os::kill(self.0, os::SIGKILL)
KillGuardDropKill(g) ==
    /\ guards[g].st = "kill"
    /\ calls' = Append(calls, [by |-> g, call |-> "kill", res |-> KillResult])
    /\ KillEffect
    /\ guards' = [guards EXCEPT ![g].st = "waitpid"]
    /\ UNCHANGED <<inputVars, ppc, pfds, buf, nread, npolled, spawned,
                   result, pollms, clock, childVars, pipe>>

\* Mutant of KillGuardDropWaitpid: a drop that kills and does not wait.
KillGuardDropWaitpid_Skipped(g) ==
    /\ guards[g].st = "waitpid"
    /\ guards' = [guards EXCEPT ![g].st = "dropped"]
    /\ UNCHANGED <<inputVars, ppc, pfds, buf, nread, npolled, calls, spawned,
                   result, pollms, clock, childVars, kernelVars>>

\* KillGuard::drop, second statement: let _ = os::waitpid(self.0, 0)
KillGuardDropWaitpid(g) ==
    /\ guards[g].st = "waitpid"
    /\ WaitpidReturns
    /\ calls' = Append(calls,
                       [by |-> g, call |-> "waitpid", res |-> WaitpidResult])
    /\ cst' = "reaped"
    /\ guards' = [guards EXCEPT ![g].st = "dropped"]
    /\ UNCHANGED <<inputVars, ppc, pfds, buf, nread, npolled, spawned,
                   result, pollms, clock, childVars, cpipe, pipe, wstatus>>

----------------------------------------------------------------------------
(* perform_run_action up to the call of Command::run (actions/run.rs). *)

\* One of the seven os::mkdirat(&context.scratch_dir, path, mode)? calls.
ActionMkdirat ==
    /\ ppc = "mkdirat"
    /\ \E e \in {0} \cup ParentErrnos.mkdirat :
         LET r == Mkdirat(fs, RootDirs[ai].path, RootDirs[ai].mode, e)
         IN  /\ fs' = r.fs
             /\ IF r.res # 0
                THEN /\ aerr' = r.res
                     /\ ppc' = "io_error"
                     /\ UNCHANGED ai
                ELSE /\ ai' = IF ai < Len(RootDirs) THEN ai + 1 ELSE 1
                     /\ ppc' = IF ai < Len(RootDirs) THEN "mkdirat"
                               ELSE "symlinkat"
                     /\ UNCHANGED aerr
    /\ UNCHANGED <<entry, config, context, cmd, timeout, libVars, concVars,
                   pfds, buf, nread, npolled, guards, calls, spawned, result,
                   pollms, clock, childVars, kernelVars>>

\* One of the two os::symlinkat(target, &context.scratch_dir, linkpath)?
\* calls.
ActionSymlinkat ==
    /\ ppc = "symlinkat"
    /\ \E e \in {0} \cup ParentErrnos.symlinkat :
         LET l == Symlinks(config)[ai]
             r == Symlinkat(fs, l.target, l.linkpath, e)
         IN  /\ fs' = r.fs
             /\ IF r.res # 0
                THEN /\ aerr' = r.res
                     /\ ppc' = "io_error"
                     /\ UNCHANGED ai
                ELSE /\ ai' = IF ai < Len(Symlinks(config)) THEN ai + 1 ELSE 1
                     /\ ppc' = IF ai < Len(Symlinks(config)) THEN "symlinkat"
                               ELSE "run_command"
                     /\ UNCHANGED aerr
    /\ UNCHANGED <<entry, config, context, cmd, timeout, libVars, concVars,
                   pfds, buf, nread, npolled, guards, calls, spawned, result,
                   pollms, clock, childVars, kernelVars>>

\* run_command(context, info): the Command is built and command.run is
\* called with info.timeout.
RunCommand ==
    /\ ppc = "run_command"
    /\ cmd' = RunActionCommand(context)
    /\ ppc' = "readlink"
    /\ UNCHANGED <<actionVars, libVars, concVars, timeout, pfds, buf, nread,
                   npolled, guards, calls, spawned, result, pollms, clock,
                   childVars, kernelVars>>

\* What perform_run_action has returned: Io for a failed mkdirat or
\* symlinkat, Run(error) for an error of command.run, else Ok.
ActionResult ==
    IF ppc = "io_error" THEN Io(aerr)
    ELSE IF ppc = "done" /\ entry = "perform_run_action"
      THEN IF result.tag = "Ok" THEN result
           ELSE [tag |-> "Run", err |-> result]
    ELSE NoValue

----------------------------------------------------------------------------
(* Command::spawn, parent side (container/spawn.rs). *)

\* os::readlink(fchdir_magic_link).context("readlink: fchdir_magic_link")?
Readlink ==
    /\ ppc = "readlink"
    /\ \E e \in {0} \cup ParentErrnos.readlink :
         IF e = 0
         THEN /\ ppc' = "pipe2"
              /\ UNCHANGED <<spawned, result>>
         ELSE /\ spawned' = SpawnErr(FromRawOsError(e, CtxReadlink))
              /\ result' = Container(FromRawOsError(e, CtxReadlink))
              /\ ppc' = "done"
    /\ UNCHANGED <<inputVars, pfds, buf, nread, npolled, guards, calls,
                   pollms, clock, childVars, kernelVars>>

\* os::pipe2(0).context("pipe2")?
Pipe2 ==
    /\ ppc = "pipe2"
    /\ \E e \in {0} \cup ParentErrnos.pipe2 :
         IF e = 0
         THEN /\ pfds' = pfds \cup {"pipe_r", "pipe_w"}
              /\ ppc' = "clone3"
              /\ UNCHANGED <<spawned, result>>
         ELSE /\ spawned' = SpawnErr(FromRawOsError(e, CtxPipe2))
              /\ result' = Container(FromRawOsError(e, CtxPipe2))
              /\ ppc' = "done"
              /\ UNCHANGED pfds
    /\ UNCHANGED <<inputVars, buf, nread, npolled, guards, calls, pollms,
                   clock, childVars, kernelVars>>

\* Mutant of Clone3: the pipe ends are still open when spawn returns the
\* error of clone3.
Clone3_PipeKept ==
    /\ ppc = "clone3"
    /\ \E e \in {0} \cup ParentErrnos.clone3 :
         IF e = 0
         THEN /\ cst' = "preexec"
              /\ cpipe' = {"r", "w"}
              /\ pfds' = pfds \cup {"pidfd"}
              /\ ppc' = "parent"
              /\ UNCHANGED <<spawned, result>>
         ELSE /\ spawned' = SpawnErr(FromRawOsError(e, CtxClone3))
              /\ result' = Container(FromRawOsError(e, CtxClone3))
              /\ pfds' = pfds
              /\ ppc' = "done"
              /\ UNCHANGED <<cst, cpipe>>
    /\ UNCHANGED <<inputVars, buf, nread, npolled, guards, calls, pollms,
                   clock, childVars, pipe, wstatus>>

\* The clone3 system call.  On -1 spawn returns last_os_error("clone3") and
\* the two pipe ends go out of scope; otherwise the child exists, with a
\* copy of both pipe ends, and the pidfd slot is filled.
Clone3 ==
    /\ ppc = "clone3"
    /\ \E e \in {0} \cup ParentErrnos.clone3 :
         IF e = 0
         THEN /\ cst' = "preexec"
              /\ cpipe' = {"r", "w"}
              /\ pfds' = pfds \cup {"pidfd"}
              /\ ppc' = "parent"
              /\ UNCHANGED <<spawned, result>>
         ELSE /\ spawned' = SpawnErr(FromRawOsError(e, CtxClone3))
              /\ result' = Container(FromRawOsError(e, CtxClone3))
              /\ pfds' = pfds \ {"pipe_r", "pipe_w"}
              /\ ppc' = "done"
              /\ UNCHANGED <<cst, cpipe>>
    /\ UNCHANGED <<inputVars, buf, nread, npolled, guards, calls, pollms,
                   clock, childVars, pipe, wstatus>>

\* Mutant of ParentBranch: the parent keeps its write end open while it
\* reads.
ParentBranch_KeepsWriteEnd ==
    /\ ppc = "parent"
    /\ guards' = KillGuardNew("spawn")
    /\ pfds' = pfds
    /\ ppc' = "read"
    /\ UNCHANGED <<inputVars, buf, nread, npolled, calls, spawned, result,
                   pollms, clock, childVars, kernelVars>>

\* The parent branch up to the read: KillGuard::new(pid), drop(pipe_w),
\* PidFd::from_raw_fd(pidfd).
ParentBranch ==
    /\ ppc = "parent"
    /\ guards' = KillGuardNew("spawn")
    /\ pfds' = pfds \ {"pipe_w"}
    /\ ppc' = "read"
    /\ UNCHANGED <<inputVars, buf, nread, npolled, calls, spawned, result,
                   pollms, clock, childVars, kernelVars>>

\* Mutant of DecodePacket: the arm for an empty read is missing.
DecodePacket_NoEmptyArm(b) ==
    LET n == Len(b)
    IN  IF n > 4
          THEN SpawnErr(FromRawOsError(FromNeBytes(SubSeq(b, 1, 4)),
                                       FromUtf8Lossy(SubSeq(b, 5, n))))
          ELSE SpawnErr(ErrorOther("Unknown error", CtxChildPreExecve))

\* Mutant of DecodePacket: the packet counts from four bytes on (n >= 4).
DecodePacket_FromFour(b) ==
    LET n == Len(b)
    IN  IF n = 0 THEN SpawnOk
        ELSE IF n >= 4
          THEN SpawnErr(FromRawOsError(FromNeBytes(SubSeq(b, 1, 4)),
                                       FromUtf8Lossy(SubSeq(b, 5, n))))
          ELSE SpawnErr(ErrorOther("Unknown error", CtxChildPreExecve))

\* Mutant of DecodePacket: anything too short for a packet counts as
\* success.
DecodePacket_ShortIsOk(b) ==
    LET n == Len(b)
    IN  IF n > 4
          THEN SpawnErr(FromRawOsError(FromNeBytes(SubSeq(b, 1, 4)),
                                       FromUtf8Lossy(SubSeq(b, 5, n))))
          ELSE SpawnOk

\* The match on what read_to_end returned: nothing, more than four bytes,
\* or one to four bytes.
DecodePacket(b) ==
    LET n == Len(b)
    IN  IF n = 0 THEN SpawnOk
        ELSE IF n > 4
          THEN SpawnErr(FromRawOsError(FromNeBytes(SubSeq(b, 1, 4)),
                                       FromUtf8Lossy(SubSeq(b, 5, n))))
          ELSE SpawnErr(ErrorOther("Unknown error", CtxChildPreExecve))

\* Mutant of SpawnGuardOnReturn: the forget on the success path is missing.
SpawnGuardOnReturn_NoForget(r) ==
    [guards EXCEPT !["spawn"].st = "kill", !["spawn"].fires = @ + 1]

\* What spawn does with its guard when it returns r: forget on Ok, drop
\* (at the end of the scope) on Err.
SpawnGuardOnReturn(r) ==
    IF r.tag = "Ok" THEN KillGuardForget("spawn")
    ELSE KillGuardDropped("spawn")

\* The guard run puts on the pid spawn returned, and the poll call: the
\* timeout argument is computed and the wait begins.
RunAfterSpawn(g) ==
    /\ guards' = [g EXCEPT !["run"].st = "armed"]
    /\ pollms' = PollTimeoutMillis(timeout)
    /\ clock' = Duration(0, 0)
    /\ ppc' = "poll"

\* Mutant of SpawnReturn: on the error path the pidfd stays a raw
\* descriptor that nobody closes.
SpawnReturn_PidfdLeaked(r) ==
    /\ spawned' = r
    /\ IF r.tag = "Ok"
       THEN /\ pfds' = pfds \ {"pipe_r"}
            /\ RunAfterSpawn(SpawnGuardOnReturn(r))
            /\ UNCHANGED result
       ELSE /\ pfds' = pfds
            /\ guards' = SpawnGuardOnReturn(r)
            /\ result' = Container(r.err)
            /\ ppc' = "spawn_unwind"
            /\ UNCHANGED <<pollms, clock>>

\* spawn returns r after the read.  Ok: pipe_r and buf go out of scope and
\* run goes on.  Err: pidfd is dropped, then the guard (kill, waitpid).
SpawnReturn(r) ==
    /\ spawned' = r
    /\ IF r.tag = "Ok"
       THEN /\ pfds' = pfds \ {"pipe_r"}
            /\ RunAfterSpawn(SpawnGuardOnReturn(r))
            /\ UNCHANGED result
       ELSE /\ pfds' = pfds \ {"pidfd"}
            /\ guards' = SpawnGuardOnReturn(r)
            /\ result' = Container(r.err)
            /\ ppc' = "spawn_unwind"
            /\ UNCHANGED <<pollms, clock>>

\* Every write end of the pre-exec pipe is closed: a read returns 0.
PipeAtEof == "pipe_w" \notin pfds /\ "w" \notin cpipe

\* pipe_r.read_to_end(&mut buf) reaches end of file.
ReadToEnd ==
    /\ ppc = "read"
    /\ PipeAtEof
    /\ buf' = pipe
    /\ nread' = Len(pipe)
    /\ SpawnReturn(DecodePacket(pipe))
    /\ UNCHANGED <<inputVars, npolled, calls, childVars, kernelVars>>

\* pipe_r.read_to_end(&mut buf).context("read: pipe_r")? fails.
ReadFails ==
    /\ ppc = "read"
    /\ \E e \in ParentErrnos.read :
         SpawnReturn(SpawnErr(FromRawOsError(e, CtxReadPipe)))
    /\ nread' = -1
    /\ UNCHANGED <<inputVars, buf, npolled, calls, childVars, kernelVars>>

\* The drop of spawn's kill guard on an error return.
SpawnGuardKill ==
    /\ ppc = "spawn_unwind"
    /\ KillGuardDropKill("spawn")

SpawnGuardWaitpid ==
    /\ ppc = "spawn_unwind"
    /\ KillGuardDropWaitpid("spawn")

\* The rest of spawn's scope is left (pipe_r is dropped) and run passes the
\* error on: self.spawn()?
SpawnUnwound ==
    /\ ppc = "spawn_unwind"
    /\ guards["spawn"].st = "dropped"
    /\ pfds' = pfds \ {"pipe_r"}
    /\ ppc' = "done"
    /\ UNCHANGED <<inputVars, buf, nread, npolled, guards, calls, spawned,
                   result, pollms, clock, childVars, kernelVars>>

----------------------------------------------------------------------------
(* Command::run after spawn (container/run.rs). *)

\* The run guard goes out of scope with err as run's return value.
RunFails(err) ==
    /\ result' = err
    /\ guards' = KillGuardDropped("run")
    /\ ppc' = "run_unwind"

\* Time passes while the parent is in poll.
Tick ==
    /\ ppc = "poll"
    /\ \E t \in Instants :
         /\ DurationLE(clock, t) /\ t # clock
         /\ clock' = t
    /\ UNCHANGED <<inputVars, ppc, pfds, buf, nread, npolled, guards, calls,
                   spawned, result, pollms, childVars, kernelVars>>

\* Mutant of PollReady: poll also returns 1 while the child is running.
PollReady_Spurious ==
    /\ ppc = "poll"
    /\ cst \in {"program", "zombie", "reaped"}
    /\ ppc' = "waitpid"
    /\ npolled' = 1
    /\ UNCHANGED <<inputVars, pfds, buf, nread, guards, calls, spawned,
                   result, pollms, clock, childVars, kernelVars>>

\* poll returns 1: the pidfd is readable, the child has terminated.
PollReady ==
    /\ ppc = "poll"
    /\ cst \in {"zombie", "reaped"}
    /\ ppc' = "waitpid"
    /\ npolled' = 1
    /\ UNCHANGED <<inputVars, pfds, buf, nread, guards, calls, spawned,
                   result, pollms, clock, childVars, kernelVars>>

\* Mutant of PollTimeout: the error carries the Duration of the clamped
\* milliseconds given to poll instead of the Duration given to run.
PollTimeout_Clamped ==
    /\ ppc = "poll"
    /\ cst = "program"
    /\ ElapsedMillis(clock, pollms)
    /\ npolled' = 0
    /\ RunFails(Timeout(Duration(pollms \div 1000,
                                 (pollms % 1000) * 1000000)))
    /\ UNCHANGED <<inputVars, pfds, buf, nread, calls, spawned, pollms, clock,
                   childVars, kernelVars>>

\* Mutant of PollTimeout: poll is given a negative timeout when the
\* milliseconds do not fit, and then waits without limit.
PollTimeout_Unlimited ==
    /\ ppc = "poll"
    /\ cst = "program"
    /\ pollms < I32Max
    /\ ElapsedMillis(clock, pollms)
    /\ npolled' = 0
    /\ RunFails(Timeout(timeout))
    /\ UNCHANGED <<inputVars, pfds, buf, nread, calls, spawned, pollms,
                   clock, childVars, kernelVars>>

\* poll returns 0: pollms milliseconds went by and the child still runs.
\* run returns Err(RunError::Timeout(timeout)).
PollTimeout ==
    /\ ppc = "poll"
    /\ cst = "program"
    /\ ElapsedMillis(clock, pollms)
    /\ npolled' = 0
    /\ RunFails(Timeout(timeout))
    /\ UNCHANGED <<inputVars, pfds, buf, nread, calls, spawned, pollms,
                   clock, childVars, kernelVars>>

\* poll returns -1 (a signal handler ran: poll is never restarted).
PollFails ==
    /\ ppc = "poll"
    /\ \E e \in ParentErrnos.poll :
         RunFails(Container(FromRawOsError(e, CtxPoll)))
    /\ UNCHANGED <<inputVars, pfds, buf, nread, npolled, calls, spawned,
                   pollms, clock, childVars, kernelVars>>

\* The check of the wait status: Unsuccessful(wstatus) unless success().
CheckStatus(ws) == IF ~Success(ws) THEN Unsuccessful(ws) ELSE RunOk

\* os::waitpid(pid, 0).context("waitpid")?, forget(kill_guard) and the
\* check of the status.
RunWaitpid ==
    /\ ppc = "waitpid"
    /\ WaitpidReturns
    /\ calls' = Append(calls,
                       [by |-> "run_waitpid", call |-> "waitpid",
                        res |-> WaitpidResult])
    /\ IF WaitpidResult = 0
       THEN /\ cst' = "reaped"
            /\ guards' = KillGuardForget("run")
            /\ result' = CheckStatus(wstatus)
            /\ pfds' = pfds \ {"pidfd"}
            /\ ppc' = "done"
       ELSE /\ RunFails(Container(FromRawOsError(WaitpidResult, CtxWaitpid)))
            /\ UNCHANGED <<cst, pfds>>
    /\ UNCHANGED <<inputVars, buf, nread, npolled, spawned, pollms, clock,
                   childVars, cpipe, pipe, wstatus>>

\* The drop of run's kill guard on an error return.
RunGuardKill ==
    /\ ppc = "run_unwind"
    /\ KillGuardDropKill("run")

RunGuardWaitpid ==
    /\ ppc = "run_unwind"
    /\ KillGuardDropWaitpid("run")

\* The rest of run's scope is left: the pidfd is dropped.
RunUnwound ==
    /\ ppc = "run_unwind"
    /\ guards["run"].st = "dropped"
    /\ pfds' = pfds \ {"pidfd"}
    /\ ppc' = "done"
    /\ UNCHANGED <<inputVars, buf, nread, npolled, guards, calls, spawned,
                   result, pollms, clock, childVars, kernelVars>>

----------------------------------------------------------------------------
(* The child: child_pre_execve and the error report (container/spawn.rs). *)

\* The step that follows step (at mount i of n) when it succeeds.
StepAfter(step, i, n) ==
    CASE step = "close_r"      -> <<"setgroups", 0>>
      [] step = "setgroups"    -> <<"uid_map", 0>>
      [] step = "uid_map"      -> <<"gid_map", 0>>
      [] step = "gid_map"      -> <<"fchdir", 0>>
      [] step = "fchdir"       ->
           IF n > 0 THEN <<"mount", 1>> ELSE <<"chroot", 0>>
      [] step = "mount"        ->
           IF i < n THEN <<"mount", i + 1>> ELSE <<"chroot", 0>>
      [] step = "chroot"       -> <<"chroot_chdir", 0>>
      [] step = "chroot_chdir" -> <<"stdin", 0>>
      [] step = "stdin"        -> <<"stdout", 0>>
      [] step = "stdout"       -> <<"stderr", 0>>
      [] step = "stderr"       -> <<"execve", 0>>

\* Mutant of StepTarget: the result of mount is not checked (no ?).
StepTarget_MountUnchecked(step, i, n, res) ==
    IF res = 0 \/ step = "mount" THEN StepAfter(step, i, n)
    ELSE <<"write_errno", i>>

\* Where the child goes when a step returned res: on with the sequence,
\* or (the ? operator) out of child_pre_execve to the error report.
StepTarget(step, i, n, res) ==
    IF res = 0 THEN StepAfter(step, i, n) ELSE <<"write_errno", i>>

\* A fallible pre-exec step has returned res (0 or an errno):
\* result.context(label)?
ChildStepDone(step, res) ==
    LET to == StepTarget(step, mi, Len(cmd.mounts), res)
    IN  /\ csteps' = Append(csteps, [step |-> step, i |-> mi, res |-> res])
        /\ cpc' = to[1]
        /\ mi' = to[2]
        /\ cerr' = IF res = 0 THEN cerr
                   ELSE FromRawOsError(res, Label(step))

\* drop(pipe_r)
ChildCloseR ==
    /\ cst = "preexec" /\ cpc = "close_r"
    /\ cpipe' = cpipe \ {"r"}
    /\ csteps' = Append(csteps, [step |-> "close_r", i |-> mi, res |-> 0])
    /\ cpc' = StepAfter("close_r", mi, Len(cmd.mounts))[1]
    /\ UNCHANGED <<inputVars, parentVars, mi, cerr, cfd, cst, pipe, wstatus>>

\* Mutant of WriteFile: a short write counts as success.
WriteFile_ShortIsOk(data, opened, written) ==
    IF opened # 0 THEN opened
    ELSE IF written < 0 THEN -written
    ELSE 0

\* write_file: open, one write, and the check of the count.  opened is the
\* result of open (0 or an errno), written that of write (the count, or
\* minus the errno).
WriteFile(data, opened, written) ==
    IF opened # 0 THEN opened
    ELSE IF written < 0 THEN -written
    ELSE IF written # Len(data) THEN EAGAIN
    ELSE 0

WriteResults(data) == (0 .. Len(data)) \cup {-e : e \in Errnos}

\* The three writes to /proc/self/{setgroups,uid_map,gid_map}.
ChildWriteFile ==
    /\ cst = "preexec" /\ cpc \in {"setgroups", "uid_map", "gid_map"}
    /\ \E opened \in {0} \cup Errnos, written \in WriteResults(cmd[cpc]) :
         ChildStepDone(cpc, WriteFile(cmd[cpc], opened, written))
    /\ UNCHANGED <<inputVars, parentVars, cfd, kernelVars>>

\* os::chdir(fchdir).context("fchdir")?
ChildFchdir ==
    /\ cst = "preexec" /\ cpc = "fchdir"
    /\ \E e \in {0} \cup Errnos : ChildStepDone("fchdir", e)
    /\ UNCHANGED <<inputVars, parentVars, cfd, kernelVars>>

\* One turn of the loop over self.mounts: os::mount(..).context("mount")?
ChildMount ==
    /\ cst = "preexec" /\ cpc = "mount"
    /\ \E e \in {0} \cup Errnos : ChildStepDone("mount", e)
    /\ UNCHANGED <<inputVars, parentVars, cfd, kernelVars>>

\* os::chroot(&self.chroot).context("chroot")?
ChildChroot ==
    /\ cst = "preexec" /\ cpc = "chroot"
    /\ \E e \in {0} \cup Errnos : ChildStepDone("chroot", e)
    /\ UNCHANGED <<inputVars, parentVars, cfd, kernelVars>>

\* os::chdir(&self.chroot_chdir).context("chroot_chdir")?
ChildChrootChdir ==
    /\ cst = "preexec" /\ cpc = "chroot_chdir"
    /\ \E e \in {0} \cup Errnos : ChildStepDone("chroot_chdir", e)
    /\ UNCHANGED <<inputVars, parentVars, cfd, kernelVars>>

\* Mutant of AdjustFd: Dup2 moves the descriptor (oldfd is closed
\* afterwards).
AdjustFd_Dup2ClosesOldfd(fds, fd, stdio, e) ==
    CASE stdio.kind = "Inherit" -> [res |-> 0, fds |-> fds]
      [] stdio.kind = "Close" ->
           [res |-> 0, fds |-> [fds EXCEPT ![fd] = ClosedFd]]
      [] stdio.kind = "Dup2" ->
           IF fds[stdio.oldfd] = ClosedFd
           THEN [res |-> KernelErrno.EBADF, fds |-> fds]
           ELSE IF stdio.oldfd = fd THEN [res |-> 0, fds |-> fds]
           ELSE IF e # 0 THEN [res |-> e, fds |-> fds]
           ELSE [res |-> 0,
                 fds |-> [fds EXCEPT
                            ![fd] = OpenFd(fds[stdio.oldfd].file, FALSE),
                            ![stdio.oldfd] = ClosedFd]]

\* adjust_fd(fd, stdio) on the table fds; e is what dup2 answers when
\* oldfd is open and is not fd (0 or an errno).  dup2 of a descriptor onto
\* itself does nothing; the copy dup2 makes is not close-on-exec.
AdjustFd(fds, fd, stdio, e) ==
    CASE stdio.kind = "Inherit" -> [res |-> 0, fds |-> fds]
      [] stdio.kind = "Close" ->
           [res |-> 0, fds |-> [fds EXCEPT ![fd] = ClosedFd]]
      [] stdio.kind = "Dup2" ->
           IF fds[stdio.oldfd] = ClosedFd
           THEN [res |-> KernelErrno.EBADF, fds |-> fds]
           ELSE IF stdio.oldfd = fd THEN [res |-> 0, fds |-> fds]
           ELSE IF e # 0 THEN [res |-> e, fds |-> fds]
           ELSE [res |-> 0,
                 fds |-> [fds EXCEPT
                            ![fd] = OpenFd(fds[stdio.oldfd].file, FALSE)]]

\* What execve does to a descriptor table: the close-on-exec descriptors are
\* closed.
FdsAfterExec(fds) ==
    [fd \in DOMAIN fds |-> IF fds[fd].cloexec THEN ClosedFd ELSE fds[fd]]

StdioFd(step) ==
    CASE step = "stdin" -> 0 [] step = "stdout" -> 1 [] step = "stderr" -> 2

\* Self::adjust_fd(0 | 1 | 2, self.stdin | stdout | stderr).context(..)?
ChildAdjustFd ==
    /\ cst = "preexec" /\ cpc \in {"stdin", "stdout", "stderr"}
    /\ \E e \in {0} \cup Errnos :
         LET r == AdjustFd(cfd, StdioFd(cpc), cmd[cpc], e)
         IN  /\ cfd' = r.fds
             /\ ChildStepDone(cpc, r.res)
    /\ UNCHANGED <<inputVars, parentVars, kernelVars>>

\* Flags open and pipe2 may be given; no flag at all is 0.
OFlags == {"O_WRONLY", "O_TRUNC", "O_CREAT", "O_NONBLOCK", "O_CLOEXEC"}

\* os::open ors O_CLOEXEC into the flags it is given.
OpenFlags(flags) == flags \cup {"O_CLOEXEC"}

\* Mutant of Pipe2Flags: the flags are passed on as given.
Pipe2Flags_AsGiven(flags) == flags

\* os::pipe2 ors O_CLOEXEC into the flags it is given.
Pipe2Flags(flags) == flags \cup {"O_CLOEXEC"}

\* The pipe ends the child holds after a successful execve: those without
\* close-on-exec.
PipeAfterExec(ends) == IF "O_CLOEXEC" \in Pipe2Flags({}) THEN {} ELSE ends

\* os::execve(..): replaces the process image or returns the error.
ChildExecve ==
    /\ cst = "preexec" /\ cpc = "execve"
    /\ \E e \in {0} \cup Errnos :
         /\ csteps' = Append(csteps, [step |-> "execve", i |-> mi, res |-> e])
         /\ IF e = 0
            THEN /\ cst' = "program"
                 /\ cpipe' = PipeAfterExec(cpipe)
                 /\ cfd' = FdsAfterExec(cfd)
                 /\ cpc' = "program"
                 /\ UNCHANGED cerr
            ELSE /\ cerr' = FromRawOsError(e, Label("execve"))
                 /\ cpc' = "write_errno"
                 /\ UNCHANGED <<cst, cpipe, cfd>>
    /\ UNCHANGED <<inputVars, parentVars, mi, pipe, wstatus>>

\* How many bytes one write on the pipe may take of the data: none (also
\* when it fails; the result is ignored), all, or a part.  Parts of up to
\* four bytes and of all but one byte stand for the short writes.
WriteCounts(data) ==
    { k \in 0 .. Len(data) : k <= 4 \/ k >= Len(data) - 1 }

Prefixes(data) == { SubSeq(data, 1, k) : k \in WriteCounts(data) }

\* let _ = pipe_w.write(&errno.to_ne_bytes())
ChildWriteErrno ==
    /\ cst = "preexec" /\ cpc = "write_errno"
    /\ \E w \in Prefixes(ToNeBytes(RawOsErrorOr(cerr))) : pipe' = pipe \o w
    /\ cpc' = "write_context"
    /\ UNCHANGED <<inputVars, parentVars, mi, cerr, csteps, cfd, cst, cpipe,
                   wstatus>>

\* let _ = pipe_w.write(error.context.as_bytes())
ChildWriteContext ==
    /\ cst = "preexec" /\ cpc = "write_context"
    /\ \E w \in Prefixes(AsBytes(cerr.context)) : pipe' = pipe \o w
    /\ cpc' = "_exit"
    /\ UNCHANGED <<inputVars, parentVars, mi, cerr, csteps, cfd, cst, cpipe,
                   wstatus>>

\* os::_exit(1)
ChildExit ==
    /\ cst = "preexec" /\ cpc = "_exit"
    /\ cst' = "zombie"
    /\ wstatus' = ChildExitCode * 256
    /\ cpipe' = {}
    /\ cpc' = "exited"
    /\ UNCHANGED <<inputVars, parentVars, mi, cerr, csteps, cfd, pipe>>

----------------------------------------------------------------------------
(* The rest of the world. *)

\* The child is killed from outside before it reaches execve or _exit.
ChildKilled ==
    /\ cst = "preexec"
    /\ cst' = "zombie"
    /\ wstatus' = SIGKILL
    /\ cpipe' = {}
    /\ UNCHANGED <<inputVars, parentVars, childVars, pipe>>

\* The launched program terminates.
ProgramExits ==
    /\ cst = "program"
    /\ \E ws \in ProgramStatuses : wstatus' = ws
    /\ cst' = "zombie"
    /\ cpipe' = {}
    /\ UNCHANGED <<inputVars, parentVars, childVars, pipe>>

\* The terminated child is reaped by someone else than this call of run
\* (SIGCHLD is ignored in the process, or another thread waits for any
\* child).
ReapedElsewhere ==
    /\ cst = "zombie"
    /\ cst' = "reaped"
    /\ UNCHANGED <<inputVars, parentVars, childVars, cpipe, pipe, wstatus>>

----------------------------------------------------------------------------

Next ==
    \/ ActionMkdirat \/ ActionSymlinkat \/ RunCommand
    \/ Readlink \/ Pipe2 \/ Clone3 \/ ParentBranch
    \/ ReadToEnd \/ ReadFails
    \/ SpawnGuardKill \/ SpawnGuardWaitpid \/ SpawnUnwound
    \/ Tick \/ PollReady \/ PollTimeout \/ PollFails
    \/ RunWaitpid \/ RunGuardKill \/ RunGuardWaitpid \/ RunUnwound
    \/ ChildCloseR \/ ChildWriteFile \/ ChildFchdir \/ ChildMount
    \/ ChildChroot \/ ChildChrootChdir \/ ChildAdjustFd \/ ChildExecve
    \/ ChildWriteErrno \/ ChildWriteContext \/ ChildExit
    \/ ChildKilled \/ ProgramExits \/ ReapedElsewhere

Spec == Init /\ [][Next]_vars

\* The steps that are taken if they can be: those of the parent, those of
\* the child before and at execve (each pre-exec step terminates), the
\* passing of time.  Whether and when the launched program terminates,
\* somebody else kills or reaps the child, or a read or poll of the parent
\* fails, is left open.
Progress ==
    \/ ActionMkdirat \/ ActionSymlinkat \/ RunCommand
    \/ Readlink \/ Pipe2 \/ Clone3 \/ ParentBranch
    \/ ReadToEnd
    \/ SpawnGuardKill \/ SpawnGuardWaitpid \/ SpawnUnwound
    \/ Tick \/ PollReady \/ PollTimeout
    \/ RunWaitpid \/ RunGuardKill \/ RunGuardWaitpid \/ RunUnwound
    \/ ChildCloseR \/ ChildWriteFile \/ ChildFchdir \/ ChildMount
    \/ ChildChroot \/ ChildChrootChdir \/ ChildAdjustFd \/ ChildExecve
    \/ ChildWriteErrno \/ ChildWriteContext \/ ChildExit

\* The calls whose termination is checked: run on a Command with one
\* mount, and a run action in an empty scratch directory.
FairInit ==
    /\ Init
    /\ entry = "run" => (Len(cmd.mounts) = 1 /\ cmd.stdin = Close)
    /\ entry = "perform_run_action" =>
         (fs = {} /\ context.log_file = [fd |-> 3, cloexec |-> TRUE]
            /\ config.bash_path[3] = "bash-5.1")

FairSpec == FairInit /\ [][Next]_vars /\ WF_vars(Progress)

----------------------------------------------------------------------------
(* Library functions exercised on their own, on inputs drawn from small    *)
(* sets: mount_bind_rdonly (actions/run.rs).                               *)

\* Mounts a caller may have pushed before it calls mount_bind_rdonly.
SomeMounts ==
    { Mount("none", "/", "", {"MS_PRIVATE", "MS_REC"}, ""),
      Mount("proc", "proc", "proc", {"MS_NODEV", "MS_NOEXEC", "MS_NOSUID"},
            "") }

\* Sources and targets mount_bind_rdonly may be called with.
BindSources == {"/nix/store", "/usr"}
BindTargets == {"nix/store", "usr"}

mainVars ==
    <<cmd, timeout, actionVars, concVars, parentVars, childVars, kernelVars>>

\* Nothing of Command::run or perform_run_action is under way.
MainIdle ==
    /\ entry = "none"
    /\ config \in {c \in Configs : c.bash_path[3] = "bash-5.1"}
    /\ context \in {c \in Contexts : c.log_file.fd = 3}
    /\ fs = {}
    /\ cmd = RunActionCommand(context)
    /\ timeout \in ActionTimeouts
    /\ ppc = "none"
    /\ InitRest

LibInit ==
    /\ MainIdle
    /\ ConcIdle
    /\ unit \in {"mounts", "cstr", "array", "packet", "poll_timeout",
                 "write_file"}
    /\ mounts = <<>>
    /\ mcall = NoValue
    /\ oscall = NoValue
    /\ elements = <<>>
    /\ pushed = <<>>
    /\ fcall = NoValue

\* mounts.push(Mount{..})
LibPushMount ==
    /\ unit = "mounts"
    /\ Len(mounts) < MaxMounts
    /\ \E m \in SomeMounts : mounts' = Append(mounts, m)
    /\ mcall' = NoValue
    /\ UNCHANGED <<unit, cstrVars, arrayVars, callVars, mainVars>>

\* mount_bind_rdonly(&mut mounts, source, target)
LibMountBindRdonly ==
    /\ unit = "mounts"
    /\ Len(mounts) <= MaxMounts + 2
    /\ \E source \in BindSources, target \in BindTargets :
         /\ mounts' = MountBindRdonly(mounts, source, target)
         /\ mcall' = [before |-> mounts, source |-> source,
                      target |-> target]
    /\ UNCHANGED <<unit, cstrVars, arrayVars, callVars, mainVars>>

\* The bytes strings are made of (0 is NUL) and the strings handed to
\* with_cstr.
Bytes == {0, 97}
Strs == UNION { [1 .. n -> Bytes] : n \in 0 .. MaxStrLen }

\* The types that implement WithCStr.  A CStr or CString has no interior
\* NUL (its terminating NUL is not among its bytes here).
WithCStrTypes == {"&CStr", "&CString", "CString", "&str", "String"}
Arg(type, bytes) == [type |-> type, bytes |-> bytes]
Args(types) ==
    { Arg(type, bytes) : type \in types, bytes \in Strs } \
      { a \in [type : {"&CStr", "&CString", "CString"}, bytes : Strs] :
          \E i \in DOMAIN a.bytes : a.bytes[i] = 0 }

\* io::Error::from(NulError): the error of the ? in with_cstr.
InvalidInput == [tag |-> "Err", kind |-> "InvalidInput"]

\* CString::new(bytes): an error if there is a NUL among the bytes, else
\* the bytes followed by the terminating NUL.
CStringNew(bytes) ==
    IF \E i \in DOMAIN bytes : bytes[i] = 0 THEN InvalidInput
    ELSE [tag |-> "Ok", cstr |-> Append(bytes, 0)]

\* Mutant of WithCStr: a string is cut at its first NUL, as C would read
\* it, and f is called.
WithCStr_Truncating(arg) ==
    LET nuls == { i \in DOMAIN arg.bytes : arg.bytes[i] = 0 }
        first == CHOOSE i \in nuls : \A j \in nuls : i <= j
    IN  IF nuls = {} THEN [tag |-> "Ok", cstr |-> Append(arg.bytes, 0)]
        ELSE [tag |-> "Ok", cstr |-> SubSeq(arg.bytes, 1, first)]

\* arg.with_cstr(f) up to the call of f: the NUL-terminated string f is
\* called with, or the error returned without calling f.
WithCStr(arg) ==
    IF arg.type \in {"&str", "String"} THEN CStringNew(arg.bytes)
    ELSE [tag |-> "Ok", cstr |-> Append(arg.bytes, 0)]

\* a1.with_cstr(|a1| a2.with_cstr(|a2| .. syscall(a1, a2, ..))): the
\* conversions nest in argument order and the system call is the innermost
\* closure.  cargs are the strings converted so far, e is what the system
\* call answers.
RECURSIVE Nested(_, _, _)
Nested(args, cargs, e) ==
    IF args = <<>> THEN [issued |-> TRUE, cargs |-> cargs, res |-> e]
    ELSE LET c == WithCStr(Head(args))
         IN  IF c.tag = "Err"
             THEN [issued |-> FALSE, cargs |-> cargs, res |-> c]
             ELSE Nested(Tail(args), Append(cargs, c.cstr), e)

\* The wrappers that take paths, with the number of their WithCStr
\* arguments; with_cstr itself stands for a call with a closure f that
\* only records that it was called.
Wrappers ==
    [chdir |-> 1, chroot |-> 1, mkdirat |-> 1, mount |-> 4, open |-> 1,
     readlink |-> 1, symlinkat |-> 2, with_cstr |-> 1]

\* The arguments the wrapper is exercised with: every implementing type
\* for the one-argument wrappers, strings for the others.
WrapperArgs(wrapper) ==
    IF Wrappers[wrapper] = 1
    THEN { <<a>> : a \in Args(WithCStrTypes) }
    ELSE [1 .. Wrappers[wrapper] -> Args({"&str"})]

\* One call of a wrapper (or of with_cstr).
LibOsCall ==
    /\ unit = "cstr" /\ oscall = NoValue
    /\ \E wrapper \in DOMAIN Wrappers :
         \E args \in WrapperArgs(wrapper), e \in {0} \cup Errnos :
           LET r == Nested(args, <<>>, e)
           IN  oscall' = [wrapper |-> wrapper, args |-> args,
                          issued |-> r.issued, cargs |-> r.cargs,
                          res |-> r.res]
    /\ UNCHANGED <<unit, mountVars, arrayVars, callVars, mainVars>>

\* The CStrings pushed to a CStringArray: strings without NUL.
CStrings == { b \in Strs : \A i \in DOMAIN b : b[i] # 0 }

\* The elements of a CStringArray: null_mut(), and element.into_raw(), the
\* pointer to the bytes of element.
NullMut == [null |-> TRUE, str |-> <<>>]
IntoRaw(element) == [null |-> FALSE, str |-> element]

\* CStringArray::new()
CStringArrayNew == <<NullMut>>

\* Vec::insert(index, element): index counts from 0.
Insert(vec, index, element) ==
    SubSeq(vec, 1, index) \o <<element>> \o SubSeq(vec, index + 1, Len(vec))

\* Mutant of CStringArrayPush: the element goes behind the null pointer.
CStringArrayPush_AtEnd(this, element) ==
    Insert(this, Len(this), IntoRaw(element))

\* CStringArray::push(&mut self, element)
CStringArrayPush(this, element) ==
    Insert(this, Len(this) - 1, IntoRaw(element))

\* CStringArray::from_iter(iter): new, then a push for each element.
RECURSIVE FromIterLoop(_, _)
FromIterLoop(this, iter) ==
    IF iter = <<>> THEN this
    ELSE FromIterLoop(CStringArrayPush(this, Head(iter)), Tail(iter))

FromIter(iter) == FromIterLoop(CStringArrayNew, iter)

\* The iterators from_iter is called with.
Iters == UNION { [1 .. n -> CStrings] : n \in 0 .. MaxPushes }

\* let array = CStringArray::new()
LibArrayNew ==
    /\ unit = "array"
    /\ elements' = CStringArrayNew
    /\ pushed' = <<>>
    /\ UNCHANGED <<unit, mountVars, cstrVars, callVars, mainVars>>

\* array.push(element)
LibArrayPush ==
    /\ unit = "array"
    /\ elements # <<>>
    /\ Len(pushed) < MaxPushes
    /\ \E element \in CStrings :
         /\ elements' = CStringArrayPush(elements, element)
         /\ pushed' = Append(pushed, element)
    /\ UNCHANGED <<unit, mountVars, cstrVars, callVars, mainVars>>

\* let array = iter.collect::<CStringArray>()
LibArrayFromIter ==
    /\ unit = "array"
    /\ \E iter \in Iters :
         /\ elements' = FromIter(iter)
         /\ pushed' = iter
    /\ UNCHANGED <<unit, mountVars, cstrVars, callVars, mainVars>>

\* Drop for CStringArray: the pointers handed to CString::from_raw, in
\* order.  The loop runs over self.elements, every element of the vector.
CStringArrayDrop(this) == [i \in 1 .. Len(this) |-> this[i]]

\* What CString::from_raw(ptr) followed by drop can do.  With a pointer
\* from into_raw it releases the string; with a null pointer the behaviour
\* is undefined: the process may crash in strlen, or carry on.
FromRawOutcomes(ptr) ==
    IF ptr.null THEN {"crashed", "continued"} ELSE {"released"}

\* The outcomes of the calls of one drop: a crash ends the loop.
DropOutcomes(ptrs) ==
    { o \in UNION { [1 .. n -> {"released", "crashed", "continued"}] :
                      n \in 0 .. Len(ptrs) } :
        /\ \A i \in DOMAIN o : o[i] \in FromRawOutcomes(ptrs[i])
        /\ \A i \in DOMAIN o : i < Len(o) => o[i] # "crashed"
        /\ Len(o) < Len(ptrs) => (o # <<>> /\ o[Len(o)] = "crashed") }

\* drop(array)
LibArrayDrop ==
    /\ unit = "array" /\ fcall = NoValue
    /\ elements # <<>>
    /\ \E o \in DropOutcomes(CStringArrayDrop(elements)) :
         fcall' = [pushed |-> pushed,
                   from_raw |-> CStringArrayDrop(elements),
                   outcomes |-> o]
    /\ elements' = <<>>
    /\ pushed' = <<>>
    /\ UNCHANGED <<unit, mountVars, cstrVars, mainVars>>

\* OS codes an error may carry (i32): the extremes, the byte borders and
\* some errnos.
OsCodes ==
    { -I32Max - 1, -256, -1, 0, 1, 2, 13, 255, 256, 65536, 16777216,
      I32Max }

\* Characters of a context label: U+0000, "a", U+00E9, U+20AC, U+FFFD and
\* U+1F600, which take one to four bytes.
CodePoints == {0, 97, 233, 8364, 65533, 128512}

\* The non-empty context labels.
ContextLabels == UNION { [1 .. n -> CodePoints] : n \in 1 .. MaxCtxLen }

\* The child's two writes, both complete, and the parent's match on what
\* it read.
LibPacket ==
    /\ unit = "packet" /\ fcall = NoValue
    /\ \E e \in OsCodes, c \in ContextLabels :
         LET error == FromRawOsError(e, c)
             b == ToNeBytes(RawOsErrorOr(error)) \o AsBytes(error.context)
         IN  fcall' = [errno |-> e, context |-> c, buf |-> b,
                       decoded |-> DecodePacket(b)]
    /\ UNCHANGED <<unit, mountVars, cstrVars, arrayVars, mainVars>>

\* Durations run may be called with: around one millisecond, around
\* i32::MAX milliseconds, and far beyond.
Durations ==
    { Duration(secs, nanos) :
        secs \in {0, 1, I32Max \div 1000 - 1, I32Max \div 1000,
                  I32Max \div 1000 + 1, I32Max},
        nanos \in {0, 999999, 1000000, 646999999, 647000000, 647999999,
                   648000000, 999999999} }

\* The timeout argument run computes for poll.
LibPollTimeout ==
    /\ unit = "poll_timeout" /\ fcall = NoValue
    /\ \E d \in Durations :
         fcall' = [timeout |-> d, millis |-> PollTimeoutMillis(d)]
    /\ UNCHANGED <<unit, mountVars, cstrVars, arrayVars, mainVars>>

\* The system calls write_file issues: os::open(path, O_TRUNC | O_WRONLY,
\* 0), and after a successful open one file.write(data).
WriteFileCalls(data, opened) ==
    <<[call |-> "open", flags |-> OpenFlags({"O_TRUNC", "O_WRONLY"})]>> \o
      (IF opened = 0 THEN <<[call |-> "write", count |-> Len(data)]>>
       ELSE <<>>)

\* The buffers write_file is exercised with: empty, "deny\n" and "0 1000
\* 1\n".
WriteFileData ==
    { <<>>, <<100, 101, 110, 121, 10>>,
      <<48, 32, 49, 48, 48, 48, 32, 49, 10>> }

\* One call of write_file(path, data).
LibWriteFile ==
    /\ unit = "write_file" /\ fcall = NoValue
    /\ \E data \in WriteFileData, opened \in {0} \cup Errnos :
         \E written \in WriteResults(data) :
           fcall' = [data |-> data, opened |-> opened,
                     written |-> IF opened = 0 THEN written ELSE 0,
                     syscalls |-> WriteFileCalls(data, opened),
                     res |-> WriteFile(data, opened, written)]
    /\ UNCHANGED <<unit, mountVars, cstrVars, arrayVars, mainVars>>

LibNext ==
    \/ LibWriteFile
    \/ LibPollTimeout
    \/ LibPacket
    \/ LibPushMount
    \/ LibMountBindRdonly
    \/ LibOsCall
    \/ LibArrayNew
    \/ LibArrayPush
    \/ LibArrayFromIter
    \/ LibArrayDrop

LibSpec == LibInit /\ [][LibNext]_vars

----------------------------------------------------------------------------
(* Command::spawn called concurrently by the parent tasks of one process.  *)
(* The tasks share the process's descriptor table; each child starts with  *)
(* a copy of the table as it is at its clone3 (the flags do not include    *)
(* CLONE_FILES).  A pipe end is the pair of the task whose spawn made the  *)
(* pipe and "pipe_r" or "pipe_w".  The pre-exec steps are one step here    *)
(* and the writes of the packet are complete; the steps one by one and     *)
(* the short writes are in Spec.                                           *)

PipeEnds(t) == { <<t, "pipe_r">>, <<t, "pipe_w">> }

\* The processes that hold the write end of the pipe of task t open.
Writers(t) ==
    { "parent" : x \in { <<t, "pipe_w">> } \cap ofds } \cup
      { k \in Tasks : <<t, "pipe_w">> \in kids[k].fds }

\* What execve and _exit leave of the pipe ends a child holds: every end
\* was made by pipe2, close-on-exec.
EndsAfterExec(ends) == IF "O_CLOEXEC" \in Pipe2Flags({}) THEN {} ELSE ends

ConcInit ==
    /\ MainIdle
    /\ LibIdle
    /\ ofds = {}
    /\ tasks = [t \in Tasks |-> [pc |-> "pipe2", buf |-> <<>>,
                                 result |-> NoValue]]
    /\ kids = [t \in Tasks |-> [st |-> "none", fds |-> {}, err |-> NoValue,
                                sent |-> <<>>]]
    /\ pipes = [t \in Tasks |-> <<>>]

\* A step of a concurrent spawn leaves everything else alone.
ConcFrame ==
    UNCHANGED <<cmd, timeout, actionVars, libVars, parentVars, childVars,
                kernelVars>>

\* let [pipe_r, pipe_w] = os::pipe2(0).context("pipe2")?
ConcPipe2(t) ==
    /\ ConcFrame
    /\ tasks[t].pc = "pipe2"
    /\ \E e \in {0} \cup ParentErrnos.pipe2 :
         IF e = 0
         THEN /\ ofds' = ofds \cup PipeEnds(t)
              /\ tasks' = [tasks EXCEPT ![t].pc = "clone3"]
         ELSE /\ tasks' = [tasks EXCEPT
                             ![t].pc = "done",
                             ![t].result =
                                SpawnErr(FromRawOsError(e, CtxPipe2))]
              /\ UNCHANGED ofds
    /\ UNCHANGED <<kids, pipes>>

\* clone3: the child starts with a copy of the descriptor table.
ConcClone3(t) ==
    /\ ConcFrame
    /\ tasks[t].pc = "clone3"
    /\ \E e \in {0} \cup ParentErrnos.clone3 :
         IF e = 0
         THEN /\ kids' = [kids EXCEPT ![t].st = "close_r", ![t].fds = ofds]
              /\ tasks' = [tasks EXCEPT ![t].pc = "drop_w"]
              /\ UNCHANGED ofds
         ELSE /\ tasks' = [tasks EXCEPT
                             ![t].pc = "done",
                             ![t].result =
                                SpawnErr(FromRawOsError(e, CtxClone3))]
              /\ ofds' = ofds \ PipeEnds(t)
              /\ UNCHANGED kids
    /\ UNCHANGED pipes

\* drop(pipe_w) in the parent
ConcDropW(t) ==
    /\ ConcFrame
    /\ tasks[t].pc = "drop_w"
    /\ ofds' = ofds \ { <<t, "pipe_w">> }
    /\ tasks' = [tasks EXCEPT ![t].pc = "read"]
    /\ UNCHANGED <<kids, pipes>>

\* pipe_r.read_to_end(&mut buf): one read that returns the bytes in the
\* pipe.
ConcReadData(t) ==
    /\ ConcFrame
    /\ tasks[t].pc = "read"
    /\ pipes[t] # <<>>
    /\ tasks' = [tasks EXCEPT ![t].buf = tasks[t].buf \o pipes[t]]
    /\ pipes' = [pipes EXCEPT ![t] = <<>>]
    /\ UNCHANGED <<ofds, kids>>

\* pipe_r.read_to_end(&mut buf): the read that returns 0, which it does
\* when the pipe is empty and no process holds its write end; then the
\* match on the length, and the return.
ConcReadEof(t) ==
    /\ ConcFrame
    /\ tasks[t].pc = "read"
    /\ pipes[t] = <<>>
    /\ Writers(t) = {}
    /\ tasks' = [tasks EXCEPT ![t].pc = "done",
                              ![t].result = DecodePacket(tasks[t].buf)]
    /\ ofds' = ofds \ { <<t, "pipe_r">> }
    /\ UNCHANGED <<kids, pipes>>

\* child_pre_execve: drop(pipe_r)
ConcChildCloseR(t) ==
    /\ ConcFrame
    /\ kids[t].st = "close_r"
    /\ kids' = [kids EXCEPT ![t].st = "preexec",
                            ![t].fds = kids[t].fds \ { <<t, "pipe_r">> }]
    /\ UNCHANGED <<ofds, tasks, pipes>>

\* child_pre_execve from the first write_file to execve: either every
\* step succeeds, and the program runs, or one returns an errno.
ConcChildPreExecve(t) ==
    /\ ConcFrame
    /\ kids[t].st = "preexec"
    /\ \E e \in {0} \cup Errnos, step \in {"mount", "execve"} :
         IF e = 0
         THEN kids' = [kids EXCEPT ![t].st = "program",
                                   ![t].fds = EndsAfterExec(kids[t].fds)]
         ELSE kids' = [kids EXCEPT
                         ![t].st = "write_errno",
                         ![t].err = FromRawOsError(e, Label(step))]
    /\ UNCHANGED <<ofds, tasks, pipes>>

\* let _ = pipe_w.write(&errno.to_ne_bytes())
ConcChildWriteErrno(t) ==
    /\ ConcFrame
    /\ kids[t].st = "write_errno"
    /\ LET w == ToNeBytes(RawOsErrorOr(kids[t].err))
       IN  /\ pipes' = [pipes EXCEPT ![t] = pipes[t] \o w]
           /\ kids' = [kids EXCEPT ![t].st = "write_context",
                                   ![t].sent = kids[t].sent \o w]
    /\ UNCHANGED <<ofds, tasks>>

\* let _ = pipe_w.write(error.context.as_bytes())
ConcChildWriteContext(t) ==
    /\ ConcFrame
    /\ kids[t].st = "write_context"
    /\ LET w == AsBytes(kids[t].err.context)
       IN  /\ pipes' = [pipes EXCEPT ![t] = pipes[t] \o w]
           /\ kids' = [kids EXCEPT ![t].st = "_exit",
                                   ![t].sent = kids[t].sent \o w]
    /\ UNCHANGED <<ofds, tasks>>

\* os::_exit(1): the kernel closes the child's descriptors.
ConcChildExit(t) ==
    /\ ConcFrame
    /\ kids[t].st = "_exit"
    /\ kids' = [kids EXCEPT ![t].st = "exited", ![t].fds = {}]
    /\ UNCHANGED <<ofds, tasks, pipes>>

ConcNext ==
    \E t \in Tasks :
       \/ ConcPipe2(t)
       \/ ConcClone3(t)
       \/ ConcDropW(t)
       \/ ConcReadData(t)
       \/ ConcReadEof(t)
       \/ ConcChildCloseR(t)
       \/ ConcChildPreExecve(t)
       \/ ConcChildWriteErrno(t)
       \/ ConcChildWriteContext(t)
       \/ ConcChildExit(t)

ConcSpec == ConcInit /\ [][ConcNext]_vars

----------------------------------------------------------------------------
(* Properties. *)

\* The parent's kill and waitpid calls made by one caller (a guard, or run).
CallsBy(g) == SelectSeq(calls, LAMBDA c : c.by = g)

\* The caller g called kill and later waitpid.
KilledThenWaited(g) ==
    \E i, j \in DOMAIN calls :
      /\ i < j
      /\ calls[i].by = g /\ calls[i].call = "kill"
      /\ calls[j].by = g /\ calls[j].call = "waitpid"

\* A pre-exec step of the child failed: the last step it executed returned
\* an errno.
StepFailed == csteps # <<>> /\ csteps[Len(csteps)].res # 0
FailedStep == csteps[Len(csteps)]

\* C1: whenever run has returned after clone3 succeeded, whatever the
\* outcome, the parent has called waitpid on the child and the child is
\* neither running nor a zombie.
C1_ChildWaitedForOnReturn ==
    (ppc = "done" /\ cst # "none") =>
       /\ cst = "reaped"
       /\ \E i \in DOMAIN calls : calls[i].call = "waitpid"

\* C1 witness: the read of the pipe failed while the child was still in its
\* pre-exec sequence; the guard killed and reaped it before run returned.
C1_Witness ==
    /\ ppc = "done"
    /\ result.tag = "Container" /\ result.err.context = CtxReadPipe
    /\ CallsBy("spawn") = << [by |-> "spawn", call |-> "kill", res |-> 0],
                             [by |-> "spawn", call |-> "waitpid", res |-> 0] >>
    /\ wstatus = SIGKILL
    /\ cst = "reaped"

\* C2: when poll returned 0 (the program was still running when the poll
\* timeout expired), run returns Timeout carrying exactly the Duration it
\* was given, and by then the run guard has sent SIGKILL and waited, and the
\* child is reaped.
C2_TimeoutKillsAndReaps ==
    (ppc = "done" /\ npolled = 0) =>
       /\ result = [tag |-> "Timeout", dur |-> timeout]
       /\ KilledThenWaited("run")
       /\ cst = "reaped"

\* C2 witness: run(1.5 ms) timed out on a running program, which the guard
\* killed.
C2_Witness ==
    /\ ppc = "done"
    /\ npolled = 0
    /\ timeout = Duration(0, 1500000)
    /\ result.tag = "Timeout"
    /\ CallsBy("run") = << [by |-> "run", call |-> "kill", res |-> 0],
                           [by |-> "run", call |-> "waitpid", res |-> 0] >>
    /\ wstatus = SIGKILL

\* C3 as stated, in the case most favourable to it (the read of the pipe
\* succeeded and the child reported and exited by itself): whenever a
\* pre-exec step S failed with errno e, run returns Container with context
\* Label(S) and OS code e.
C3_EveryFailureReported ==
    (ppc = "done" /\ StepFailed /\ nread >= 0 /\ cpc = "exited") =>
       result = [tag |-> "Container",
                 err |-> [kind |-> "os", code |-> FailedStep.res, msg |-> "",
                          context |-> Label(FailedStep.step)]]

\* C3 amended: whenever a pre-exec step S failed with errno e and the parent
\* read the whole packet (4 bytes and the bytes of the label: both writes
\* of the child were complete and read_to_end succeeded), run returns
\* Container with context Label(S) and OS code e.
C3_CompletePacketReported ==
    (ppc = "done" /\ StepFailed
        /\ nread = 4 + Len(Label(FailedStep.step))) =>
       result = [tag |-> "Container",
                 err |-> [kind |-> "os", code |-> FailedStep.res, msg |-> "",
                          context |-> Label(FailedStep.step)]]

\* C3 witness: the second mount failed with EACCES and the whole packet
\* arrived.
C3_Witness ==
    /\ ppc = "done"
    /\ StepFailed
    /\ FailedStep = [step |-> "mount", i |-> 2, res |-> 13]
    /\ nread = 4 + Len(Label("mount"))
    /\ result.tag = "Container"

\* C4 as stated, in the case where the read of the pipe succeeded: when
\* the child's execve succeeded, run returns Ok or Unsuccessful, or Timeout
\* once the timeout it was given has elapsed; never Container.
C4_ExecNeverContainer ==
    (ppc = "done" /\ cpc = "program" /\ nread >= 0) =>
       /\ nread = 0
       /\ \/ result.tag \in {"Ok", "Unsuccessful"}
          \/ result.tag = "Timeout" /\ DurationLE(timeout, clock)

\* C4 amended: when the child's execve succeeded, nothing was written to
\* the pipe; a read that succeeds reads zero bytes and spawn returns Ok; run
\* returns Ok, Unsuccessful, Timeout (only after poll returned 0, that is
\* after at least min(floor(timeout in ms), i32::MAX) milliseconds), or
\* Container with the context of one of the parent's own calls ("read:
\* pipe_r", "poll", "waitpid"), never an error of the pre-exec sequence.
C4_ExecNoPreExecError ==
    (ppc = "done" /\ cpc = "program") =>
       /\ pipe = <<>>
       /\ nread >= 0 => (nread = 0 /\ spawned.tag = "Ok")
       /\ result.tag \in {"Ok", "Unsuccessful", "Timeout", "Container"}
       /\ result.tag = "Container" =>
            /\ result.err.kind = "os"
            /\ result.err.context \in {CtxReadPipe, CtxPoll, CtxWaitpid}
            /\ result.err.context = CtxReadPipe <=> nread = -1
       /\ result.tag = "Timeout" =>
            /\ npolled = 0
            /\ \/ /\ timeout = Duration(0, 1500000)
                  /\ DurationLE(Duration(0, 1000000), clock)
               \/ /\ timeout = Duration(2147483, 648000000)
                  /\ DurationLE(Duration(2147483, 647000000), clock)

\* C4 witness: the program was launched and poll failed; run returned
\* Container with context "poll".
C4_Witness ==
    /\ ppc = "done"
    /\ cpc = "program"
    /\ nread = 0
    /\ result.tag = "Container" /\ result.err.context = CtxPoll

\* C5 as stated: once spawn (run) has returned, the guard it constructed
\* was forgotten exactly once and never fired if it returned Ok, and fired
\* exactly once if it returned an error.
C5_NeutralizationLaw ==
    /\ (spawned.tag # "none" /\ guards["spawn"].st # "none"
          /\ (spawned.tag = "Err" => ppc = "done")) =>
         IF spawned.tag = "Ok"
         THEN guards["spawn"].forgets = 1 /\ guards["spawn"].fires = 0
         ELSE guards["spawn"].fires = 1
    /\ (ppc = "done" /\ guards["run"].st # "none") =>
         IF result.tag = "Ok"
         THEN guards["run"].forgets = 1 /\ guards["run"].fires = 0
         ELSE guards["run"].fires = 1

\* C5 amended: as stated, except that run returning Unsuccessful counts
\* with the success path: the child was reaped by run's own waitpid, the
\* guard is forgotten exactly once and never fires.
C5_NeutralizationLawAmended ==
    /\ (spawned.tag # "none" /\ guards["spawn"].st # "none"
          /\ (spawned.tag = "Err" => ppc = "done")) =>
         IF spawned.tag = "Ok"
         THEN guards["spawn"].forgets = 1 /\ guards["spawn"].fires = 0
         ELSE guards["spawn"].fires = 1
    /\ (ppc = "done" /\ guards["run"].st # "none") =>
         IF result.tag \in {"Ok", "Unsuccessful"}
         THEN guards["run"].forgets = 1 /\ guards["run"].fires = 0
         ELSE guards["run"].fires = 1

\* C5 witness: run returned Unsuccessful; both guards were forgotten once
\* and neither fired.
C5_Witness ==
    /\ ppc = "done"
    /\ result.tag = "Unsuccessful"
    /\ guards["spawn"].forgets = 1 /\ guards["spawn"].fires = 0
    /\ guards["run"].forgets = 1 /\ guards["run"].fires = 0

\* The calls a guard has made, by how far its drop has come.
GuardCallsInOrder(g) ==
    LET cs == CallsBy(g)
    IN  CASE guards[g].st \in {"none", "armed", "forgotten", "kill"} ->
               cs = <<>>
          [] guards[g].st = "waitpid" ->
               Len(cs) = 1 /\ cs[1].call = "kill"
          [] guards[g].st = "dropped" ->
               /\ Len(cs) = 2
               /\ cs[1].call = "kill"
               /\ cs[2].call = "waitpid"

\* C6: a dropped kill guard makes exactly one kill call and then exactly
\* one waitpid call, whether or not the kill failed, and neither call
\* changes what spawn or run returns.
C6_DropKillsThenWaits ==
    /\ [](\A g \in {"spawn", "run"} : GuardCallsInOrder(g))
    /\ [][(\E g \in {"spawn", "run"} :
             guards[g].st \in {"kill", "waitpid"} /\ guards'[g] # guards[g])
          => (result' = result /\ spawned' = spawned)]_vars

\* C6 witness: the kill of a dropped guard failed (the child was gone) and
\* its waitpid was called all the same, and failed too.
C6_Witness ==
    \E g \in {"spawn", "run"} :
      /\ guards[g].st = "dropped"
      /\ CallsBy(g) = << [by |-> g, call |-> "kill",
                          res |-> KernelErrno.ESRCH],
                         [by |-> g, call |-> "waitpid",
                          res |-> KernelErrno.ECHILD] >>

\* C7: what spawn returns after read_to_end succeeded is decided by the
\* number n of bytes read: n = 0, Ok((pid, pidfd)) with the guard
\* forgotten; n >= 5, the error whose code is the first four bytes and
\* whose context is the rest; 1 <= n <= 4, "Unknown error" with context
\* "child_pre_execve"; in both error cases the guard has killed and reaped
\* the child when run returns.
C7_ClassifiedByLength ==
    (spawned.tag # "none" /\ nread >= 0) =>
       /\ nread = Len(buf)
       /\ nread = 0 =>
            /\ spawned = [tag |-> "Ok", pid |-> "child", pidfd |-> "pidfd"]
            /\ guards["spawn"].st = "forgotten"
       /\ nread >= 5 =>
            /\ spawned.tag = "Err"
            /\ spawned.err.kind = "os"
            /\ spawned.err.code = FromNeBytes(SubSeq(buf, 1, 4))
            /\ spawned.err.context = FromUtf8Lossy(SubSeq(buf, 5, Len(buf)))
       /\ nread \in 1 .. 4 =>
            /\ spawned.tag = "Err"
            /\ spawned.err.kind = "other"
            /\ spawned.err.msg = "Unknown error"
            /\ spawned.err.context = CtxChildPreExecve
       /\ (nread >= 1 /\ ppc = "done") =>
            /\ KilledThenWaited("spawn")
            /\ cst = "reaped"

\* C7 witness: exactly four bytes arrived (the errno and nothing of the
\* context) and spawn returned the unknown error.
C7_Witness ==
    /\ ppc = "done"
    /\ nread = 4
    /\ spawned.tag = "Err" /\ spawned.err.kind = "other"

\* C8 as stated: spawn returns Ok if and only if the child's execve
\* succeeded.
C8_OkIffExecve ==
    (spawned.tag # "none" /\ cst # "none") =>
       (spawned.tag = "Ok" <=> cpc = "program")

\* C8 amended: spawn returns Ok if and only if its read of the pipe ended
\* with zero bytes.  That is so whenever execve succeeded and the read did
\* not fail, and never when a byte of an error packet was written; a child
\* that failed or was killed before execve without writing a byte is
\* reported as Ok too.
C8_OkIffEmptyRead ==
    (spawned.tag # "none" /\ cst # "none") =>
       /\ spawned.tag = "Ok" <=> nread = 0
       /\ (cpc = "program" /\ nread >= 0) => spawned.tag = "Ok"
       /\ (pipe # <<>> /\ nread >= 0) => spawned.tag = "Err"
       /\ spawned.tag = "Ok" => pipe = <<>>

\* C8 witness: a pre-exec step failed, none of the two writes put a byte
\* into the pipe, the child exited, and spawn returned Ok.
C8_Witness ==
    /\ spawned.tag = "Ok"
    /\ StepFailed
    /\ cpc = "exited"

\* C9: when poll reported the pidfd ready and waitpid collected a status,
\* run returns Ok if and only if that status is an exit with code 0, and
\* Unsuccessful carrying exactly that status otherwise.
C9_StatusDecidesResult ==
    (ppc = "done" /\ npolled = 1
        /\ [by |-> "run_waitpid", call |-> "waitpid", res |-> 0] \in
             {calls[i] : i \in DOMAIN calls}) =>
       /\ result.tag = "Ok" <=> wstatus = 0
       /\ wstatus # 0 => result = [tag |-> "Unsuccessful", status |-> wstatus]

\* C9 witness: the program was killed by signal 15 and run returned
\* Unsuccessful with that status.
C9_Witness ==
    /\ ppc = "done"
    /\ npolled = 1
    /\ wstatus = 15
    /\ result = [tag |-> "Unsuccessful", status |-> 15]

\* The fixed order of the pre-exec steps of a Command with n mounts.
PreExecOrder(n) ==
    <<"close_r", "setgroups", "uid_map", "gid_map", "fchdir">>
      \o [k \in 1 .. n |-> "mount"]
      \o <<"chroot", "chroot_chdir", "stdin", "stdout", "stderr", "execve">>

\* C10: the steps the child has executed are an initial part of the fixed
\* order (the mounts in list order), and only the last of them may have
\* failed: after a failure nothing more is executed.
C10_FixedOrderFirstFailureEnds ==
    LET order == PreExecOrder(Len(cmd.mounts))
    IN  /\ Len(csteps) <= Len(order)
        /\ \A k \in DOMAIN csteps :
             /\ csteps[k].step = order[k]
             /\ csteps[k].step = "mount" => csteps[k].i = k - 5
             /\ k < Len(csteps) => csteps[k].res = 0

\* C10 witness: a mount other than the last one failed, after the five
\* steps before it and the mounts before it had succeeded.
C10_Witness ==
    /\ Len(cmd.mounts) >= 2
    /\ Len(csteps) = 6
    /\ csteps[6].step = "mount" /\ csteps[6].res # 0
    /\ cpc = "exited"

\* The mount steps the child has executed.
MountSteps == SelectSeq(csteps, LAMBDA c : c.step = "mount")

\* C11: the child calls mount on the entries of the Command's list in list
\* order; the first mount that fails is the last one attempted and makes
\* child_pre_execve return that errno with context "mount"; and the list of
\* a run action is the remount of "/" as private, procfs at "proc", the
\* bind of /nix/store at "nix/store" and its read-only remount, in this
\* order.
C11_MountsInListOrder ==
    /\ Len(MountSteps) <= Len(cmd.mounts)
    /\ \A j \in DOMAIN MountSteps :
         /\ MountSteps[j].i = j
         /\ j < Len(MountSteps) => MountSteps[j].res = 0
    /\ (MountSteps # <<>> /\ MountSteps[Len(MountSteps)].res # 0) =>
         /\ csteps[Len(csteps)] = MountSteps[Len(MountSteps)]
         /\ cerr = [kind |-> "os", code |-> MountSteps[Len(MountSteps)].res,
                    msg |-> "", context |-> <<109, 111, 117, 110, 116>>]
         /\ cpc \in {"write_errno", "write_context", "_exit", "exited"}
    /\ (entry = "perform_run_action" /\ ppc \notin {"mkdirat", "symlinkat",
                                                    "io_error"}) =>
         cmd.mounts =
           << [source |-> "none", target |-> "/", filesystemtype |-> "",
               mountflags |-> {"MS_PRIVATE", "MS_REC"}, data |-> ""],
              [source |-> "proc", target |-> "proc",
               filesystemtype |-> "proc",
               mountflags |-> {"MS_NODEV", "MS_NOEXEC", "MS_NOSUID"},
               data |-> ""],
              [source |-> "/nix/store", target |-> "nix/store",
               filesystemtype |-> "", mountflags |-> {"MS_BIND", "MS_REC"},
               data |-> ""],
              [source |-> "none", target |-> "nix/store",
               filesystemtype |-> "",
               mountflags |-> {"MS_BIND", "MS_REC", "MS_RDONLY",
                               "MS_REMOUNT"},
               data |-> ""] >>

\* C11 witness: in a run action the bind of /nix/store (the third mount)
\* failed after the first two had succeeded, and the child has exited
\* without attempting the fourth.
C11_Witness ==
    /\ entry = "perform_run_action"
    /\ Len(MountSteps) = 3
    /\ MountSteps[3].res # 0
    /\ cmd.mounts[MountSteps[3].i].source = "/nix/store"
    /\ cpc = "exited"

\* C12: a call mount_bind_rdonly(mounts, source, target) leaves the entries
\* the list had unchanged and appends exactly two entries after them: the
\* bind of source onto target with flags MS_BIND | MS_REC, then the remount
\* of the same target with flags MS_BIND | MS_REC | MS_RDONLY | MS_REMOUNT.
C12_BindThenReadOnlyRemount ==
    mcall # NoValue =>
      LET n == Len(mcall.before)
      IN  /\ Len(mounts) = n + 2
          /\ SubSeq(mounts, 1, n) = mcall.before
          /\ mounts[n + 1].source = mcall.source
          /\ mounts[n + 1].target = mcall.target
          /\ mounts[n + 1].mountflags = {"MS_BIND", "MS_REC"}
          /\ mounts[n + 2].target = mcall.target
          /\ mounts[n + 2].mountflags =
               {"MS_BIND", "MS_REC", "MS_RDONLY", "MS_REMOUNT"}

\* C12 witness: mount_bind_rdonly was called with /usr and usr on a list
\* that held two mounts and a first read-only bind.
C12_Witness ==
    /\ mcall # NoValue
    /\ Len(mcall.before) = 4
    /\ mcall.before[3].source = "/nix/store"
    /\ mcall.source = "/usr" /\ mcall.target = "usr"
    /\ Len(mounts) = 6

\* perform_run_action has got as far as calling command.run.
RunCalled == ppc \notin {"mkdirat", "symlinkat", "run_command", "io_error"}

\* C13: in a run action, whenever command.run has been called (so before
\* any child exists) the scratch directory holds the directories bin, nix,
\* nix/store, usr, usr/bin, build made with mode 0o755 and proc made with
\* mode 0o555, and symlinks at bin/sh and usr/bin/env; no creation is
\* refused for a missing parent directory; and when a creation fails (also
\* because the entry exists) perform_run_action returns Io of that errno
\* and there is no child process.
C13_ScratchTreeBeforeSpawn ==
    entry = "perform_run_action" =>
      /\ (RunCalled \/ cst # "none") =>
           /\ { x \in fs : x.kind = "dir" } =
                { [path |-> <<"bin">>, kind |-> "dir", mode |-> 493],
                  [path |-> <<"nix">>, kind |-> "dir", mode |-> 493],
                  [path |-> <<"nix", "store">>, kind |-> "dir",
                   mode |-> 493],
                  [path |-> <<"proc">>, kind |-> "dir", mode |-> 365],
                  [path |-> <<"usr">>, kind |-> "dir", mode |-> 493],
                  [path |-> <<"usr", "bin">>, kind |-> "dir", mode |-> 493],
                  [path |-> <<"build">>, kind |-> "dir", mode |-> 493] }
           /\ { x.path : x \in { y \in fs : y.kind = "symlink" } } =
                { <<"bin", "sh">>, <<"usr", "bin", "env">> }
           /\ { x \in fs : x.kind \notin {"dir", "symlink"} } = {}
      /\ \A x \in fs : ParentExists(fs, x.path)
      /\ aerr # 2
      /\ ppc = "io_error" =>
           /\ aerr # 0
           /\ ActionResult = [tag |-> "Io", code |-> aerr]
           /\ cst = "none"
           /\ spawned = NoValue /\ result = NoValue
      /\ ppc # "io_error" => aerr = 0

\* C13 witness: proc was there already (as a file); bin, nix and nix/store
\* were created, the mkdirat of proc failed with EEXIST (17), and
\* perform_run_action returned Io without a child.
C13_Witness ==
    /\ entry = "perform_run_action"
    /\ ppc = "io_error"
    /\ aerr = 17
    /\ ai = 4
    /\ Cardinality({ x \in fs : x.kind = "dir" }) = 3
    /\ cst = "none"

\* The target of the symlink at path in the scratch directory.
LinkTarget(path) ==
    (CHOOSE x \in fs : x.kind = "symlink" /\ x.path = path).target

\* C14: once a run action has made its symlinks, bin/sh points to
\* <bash-path>/bin/bash and usr/bin/env points to <coreutils-path>/bin/env,
\* the bash path and the coreutils path being the two paths of the
\* configuration.
C14_SymlinkTargets ==
    (entry = "perform_run_action" /\ RunCalled) =>
       /\ LinkTarget(<<"bin", "sh">>) = config.bash_path \o <<"bin", "bash">>
       /\ LinkTarget(<<"usr", "bin", "env">>) =
            config.coreutils_path \o <<"bin", "env">>

\* C15: the Command of a run action has stdin = Close and stdout = stderr =
\* Dup2{oldfd = log_file}; in the launched program descriptor 0 is closed
\* and descriptors 1 and 2 both refer to the log file; and the parent's
\* log_file descriptor stays open throughout.
C15_LogFileCapturesOutput ==
    entry = "perform_run_action" =>
      /\ cmd.stdin = [kind |-> "Close", oldfd |-> -1]
      /\ cmd.stdout = [kind |-> "Dup2", oldfd |-> context.log_file.fd]
      /\ cmd.stderr = [kind |-> "Dup2", oldfd |-> context.log_file.fd]
      /\ "log_file" \in pfds
      /\ cpc = "program" =>
           /\ cfd[0].file = "closed"
           /\ cfd[1].file = "log"
           /\ cfd[2].file = "log"

\* C16: a step of adjust_fd on descriptor fd.  Inherit changes no
\* descriptor and succeeds; Close leaves fd closed, changes no other
\* descriptor and succeeds; Dup2{oldfd} either succeeds, and then fd refers
\* to the file of oldfd, oldfd is as it was and so is every other
\* descriptor, or fails, and then no descriptor has changed and the error
\* carries the name of the stream (stdin, stdout, stderr) as its context.
C16_AdjustFdEffect ==
    [][ (cst = "preexec" /\ cpc \in {"stdin", "stdout", "stderr"}
           /\ csteps' # csteps) =>
          LET fd == CASE cpc = "stdin" -> 0 [] cpc = "stdout" -> 1
                      [] cpc = "stderr" -> 2
              stdio == cmd[cpc]
              res == csteps'[Len(csteps')].res
              others == DOMAIN cfd \ {fd}
          IN  CASE stdio.kind = "Inherit" -> res = 0 /\ cfd' = cfd
                [] stdio.kind = "Close" ->
                     /\ res = 0
                     /\ cfd'[fd].file = "closed"
                     /\ \A o \in others : cfd'[o] = cfd[o]
                [] stdio.kind = "Dup2" ->
                     \/ /\ res = 0
                        /\ cfd[stdio.oldfd].file # "closed"
                        /\ cfd'[fd].file = cfd[stdio.oldfd].file
                        /\ cfd'[stdio.oldfd].file = cfd[stdio.oldfd].file
                        /\ \A o \in others : cfd'[o] = cfd[o]
                     \/ /\ res # 0
                        /\ cfd' = cfd
                        /\ cpc' = "write_errno"
                        /\ cerr' = FromRawOsError(res, Label(cpc)) ]_vars

\* C16 witness: stdin was closed, then dup2 made descriptor 1 a second
\* descriptor of the log file, whose own descriptor 3 is still open, and
\* the dup2 for stderr failed.
C16_Witness ==
    /\ cst = "preexec" /\ cpc = "write_errno"
    /\ cmd.stdout = [kind |-> "Dup2", oldfd |-> 3]
    /\ csteps[Len(csteps)].step = "stderr"
    /\ cfd[0].file = "closed"
    /\ cfd[1].file = "log" /\ cfd[3].file = "log"
    /\ cfd[2].file = "stderr"

\* C17: a call of with_cstr, or of a wrapper taking paths, with a &str or
\* String argument that has a NUL among its bytes returns the conversion's
\* error, and the closure (the system call) is not executed.
C17_InteriorNulNoSyscall ==
    (unit = "cstr" /\ oscall # NoValue) =>
       ((\E i \in DOMAIN oscall.args :
           /\ oscall.args[i].type \in {"&str", "String"}
           /\ \E j \in DOMAIN oscall.args[i].bytes :
                oscall.args[i].bytes[j] = 0)
        => /\ ~oscall.issued
           /\ oscall.res = InvalidInput)

\* C17 witness: mount was called with a NUL in its last argument only, and
\* the system call was not issued.
C17_Witness ==
    /\ unit = "cstr" /\ oscall # NoValue
    /\ oscall.wrapper = "mount"
    /\ oscall.args[4].bytes = <<97, 0>>
    /\ \A i \in 1 .. 3 : oscall.args[i].bytes = <<97>>
    /\ Len(oscall.cargs) = 3
    /\ ~oscall.issued

\* C18: a CStringArray made by new or from_iter and grown by push has a
\* null pointer as its last element and nowhere else, and the elements
\* before it point to the pushed strings, in the order they were pushed.
C18_NullTerminatedInPushOrder ==
    (unit = "array" /\ elements # <<>>) =>
       /\ Len(elements) = Len(pushed) + 1
       /\ elements[Len(elements)].null
       /\ \A i \in 1 .. Len(pushed) :
            /\ ~elements[i].null
            /\ elements[i].str = pushed[i]

\* C18 witness: three different strings were pushed, and the array has four
\* elements.
C18_Witness ==
    /\ unit = "array"
    /\ pushed = << <<97>>, <<>>, <<97, 97>> >>
    /\ Len(elements) = 4

\* C19: whatever flags open and pipe2 are given, none included, the flags
\* they hand to the kernel have O_CLOEXEC; and so the child that has
\* executed the program no longer holds an end of the pre-exec pipe.
C19_WrappersSetCloexec ==
    /\ \A flags \in SUBSET OFlags :
         /\ "O_CLOEXEC" \in OpenFlags(flags)
         /\ "O_CLOEXEC" \in Pipe2Flags(flags)
    /\ cst = "program" => cpipe = {}

\* C19 witness: the child held the write end up to its last pre-exec step,
\* execve succeeded, and the child holds no end of the pipe.
C19_Witness ==
    /\ cst = "program"
    /\ csteps[Len(csteps)] = [step |-> "execve", i |-> 0, res |-> 0]
    /\ cpipe = {}
    /\ "pipe_r" \in pfds

\* C20: with several parent tasks spawning containers concurrently, what a
\* task has read and what is in its pipe is what its own child wrote, its
\* spawn result is the decoding of its own child's packet, and once its own
\* child has executed the program or exited (the task having dropped its
\* own write end) nobody holds the write end of its pipe: its read reaches
\* EOF whatever the other children are doing.
C20_SpawnsIndependent ==
    \A t \in Tasks :
       /\ tasks[t].pc \in {"read", "done"} /\ kids[t].st # "none" =>
            tasks[t].buf \o pipes[t] = kids[t].sent
       /\ tasks[t].pc = "done" /\ kids[t].st # "none" =>
            tasks[t].result = DecodePacket(kids[t].sent)
       /\ tasks[t].pc = "read" /\ kids[t].st \in {"program", "exited"} =>
            Writers(t) = {}

\* C21: when the child's two writes are complete (the four bytes of the OS
\* code e, then the bytes of the non-empty context c), what the parent
\* decodes is the error with OS code e and context c.
C21_PacketRoundTrip ==
    (unit = "packet" /\ fcall # NoValue) =>
       /\ Len(fcall.buf) > 4
       /\ fcall.decoded = SpawnErr(FromRawOsError(fcall.errno, fcall.context))

\* C21 witness: the packet of the most negative code and a label of a
\* four-byte and a two-byte character was decoded.
C21_Witness ==
    /\ unit = "packet" /\ fcall # NoValue
    /\ fcall.errno = -I32Max - 1
    /\ fcall.context = <<128512, 233>>
    /\ fcall.buf = <<0, 0, 0, 128, 240, 159, 152, 128, 195, 169>>
    /\ fcall.decoded.tag = "Err"

\* C22: the timeout run hands to poll is the number of whole milliseconds
\* of the Duration, or 2^31 - 1 if that is less: it is between 0 and
\* 2^31 - 1, that many milliseconds are not more than the Duration, and
\* unless it is 2^31 - 1 one millisecond more is more than the Duration.
C22_PollTimeoutClamped ==
    (unit = "poll_timeout" /\ fcall # NoValue) =>
       /\ fcall.millis \in 0 .. I32Max
       /\ ElapsedMillis(fcall.timeout, fcall.millis)
       /\ fcall.millis < I32Max =>
            ~ElapsedMillis(fcall.timeout, fcall.millis + 1)

\* C22 witness: a Duration of one millisecond more than 2^31 - 1
\* milliseconds gave 2^31 - 1.
C22_Witness ==
    /\ unit = "poll_timeout" /\ fcall # NoValue
    /\ fcall.timeout = Duration(2147483, 648000000)
    /\ fcall.millis = I32Max

\* C23: write_file opens the path write-only and truncating, issues one
\* write of the whole buffer if the open succeeded and no other write,
\* returns Ok only if that write took every byte, and returns EAGAIN for a
\* write that took fewer.
C23_OneWriteShortIsEagain ==
    (unit = "write_file" /\ fcall # NoValue) =>
       LET writes == SelectSeq(fcall.syscalls, LAMBDA c : c.call = "write")
       IN  /\ fcall.syscalls[1].call = "open"
           /\ {"O_WRONLY", "O_TRUNC"} \subseteq fcall.syscalls[1].flags
           /\ "O_CREAT" \notin fcall.syscalls[1].flags
           /\ Len(writes) = (IF fcall.opened = 0 THEN 1 ELSE 0)
           /\ \A i \in DOMAIN writes : writes[i].count = Len(fcall.data)
           /\ fcall.res = 0 <=>
                (fcall.opened = 0 /\ fcall.written = Len(fcall.data))
           /\ (fcall.opened = 0 /\ fcall.written >= 0
                 /\ fcall.written < Len(fcall.data)) => fcall.res = EAGAIN

\* C23 witness: the one write took four of the five bytes, and write_file
\* returned EAGAIN.
C23_Witness ==
    /\ unit = "write_file" /\ fcall # NoValue
    /\ Len(fcall.data) = 5
    /\ fcall.opened = 0 /\ fcall.written = 4
    /\ Len(fcall.syscalls) = 2
    /\ fcall.res = EAGAIN

\* C24: when spawn has returned without a child ever existing, it returned
\* the error of readlink, pipe2 or clone3 with that call's context
\* ("clone3" for clone3), no kill guard was constructed, no kill and no
\* waitpid was called, and neither pipe end (nor a pidfd) is open.
C24_NoChildNoGuardNoPipe ==
    (ppc = "done" /\ cst = "none") =>
       /\ spawned.tag = "Err"
       /\ spawned.err.kind = "os"
       /\ \/ /\ spawned.err.code \in ParentErrnos.readlink
             /\ spawned.err.context = CtxReadlink
          \/ /\ spawned.err.code \in ParentErrnos.pipe2
             /\ spawned.err.context = CtxPipe2
          \/ /\ spawned.err.code \in ParentErrnos.clone3
             /\ spawned.err.context = <<99, 108, 111, 110, 101, 51>>
       /\ result = Container(spawned.err)
       /\ guards.spawn = NoGuard /\ guards.run = NoGuard
       /\ calls = <<>>
       /\ pfds \cap {"pipe_r", "pipe_w", "pidfd"} = {}

\* C24 witness: clone3 of a run action failed with ENOMEM after the pipe
\* had been created.
C24_Witness ==
    /\ entry = "perform_run_action"
    /\ ppc = "done" /\ cst = "none"
    /\ spawned = SpawnErr(FromRawOsError(12, CtxClone3))
    /\ pfds = {"log_file"}

\* C25: run is at its own waitpid(pid, 0) only after poll returned a
\* positive count, and then the child has terminated; run never calls that
\* waitpid on a child that is still running.
C25_WaitpidOnlyAfterTermination ==
    /\ ppc = "waitpid" => (npolled >= 1 /\ cst \in {"zombie", "reaped"})
    /\ \A i \in DOMAIN calls :
         calls[i].by = "run_waitpid" => npolled >= 1
    /\ cst \in {"preexec", "program"} =>
         \A i \in DOMAIN calls : calls[i].by # "run_waitpid"

\* C25 witness: the program terminated a millisecond into the poll, poll
\* returned 1, and run is about to call waitpid.
C25_Witness ==
    /\ ppc = "waitpid"
    /\ npolled = 1
    /\ cst = "zombie"
    /\ clock = Duration(0, 1000000)

\* C26: a call of run (with a finite timeout) eventually returns, with Ok,
\* Unsuccessful, Timeout or Container, whether or not the launched program
\* ever terminates.
C26_RunReturns ==
    (ppc = "readlink") ~>
       (ppc = "done"
          /\ result.tag \in {"Ok", "Unsuccessful", "Timeout", "Container"})

\* C26 witness: the program never terminated on its own, and run has
\* returned Timeout after its guard killed and reaped the child.
C26_Witness ==
    /\ ppc = "done"
    /\ result.tag = "Timeout"
    /\ cst = "reaped"
    /\ wstatus = SIGKILL

C28_NoKillAfterReap ==
    /\ \A i, j \in DOMAIN calls :
         (i < j /\ calls[i].call = "waitpid" /\ calls[i].res = 0) =>
            calls[j].call # "kill"
    /\ \A i \in DOMAIN calls :
         (calls[i].by = "run_waitpid" /\ calls[i].res = 0) =>
            (guards.run.st = "forgotten" /\ guards.run.fires = 0)
    /\ \A i \in DOMAIN calls :
         (calls[i].by = "spawn" /\ calls[i].call = "kill") => i = 1

\* C28 witness: run's waitpid reaped a program that had exited with a
\* failure; run returned Unsuccessful and no kill was ever sent.
C28_Witness ==
    /\ ppc = "done"
    /\ result.tag = "Unsuccessful"
    /\ calls = <<[by |-> "run_waitpid", call |-> "waitpid", res |-> 0]>>
    /\ cst = "reaped"

\* C28 as stated: no kill is ever sent to a pid that has been reaped (the
\* kernel answers such a kill with ESRCH, unless the pid is in use again).
C28_NeverKillReapedPid ==
    \A i \in DOMAIN calls :
       calls[i].call = "kill" => calls[i].res # KernelErrno.ESRCH

\* C29: when run has returned, whatever the outcome (an error of spawn
\* included), the parent holds neither pipe end nor the pidfd; and between
\* the Ok return of spawn and the return of run it holds no pipe end and
\* holds the pidfd.
C29_NoDescriptorLeak ==
    /\ ppc = "done" => pfds \cap {"pipe_r", "pipe_w", "pidfd"} = {}
    /\ ppc \in {"poll", "waitpid", "run_unwind"} =>
         /\ spawned = SpawnOk
         /\ pfds \cap {"pipe_r", "pipe_w"} = {}
         /\ "pidfd" \in pfds
    /\ "log_file" \in pfds

\* C29 witness: spawn returned the child's error after its guard had
\* killed and reaped the child, and only the log file is open.
C29_Witness ==
    /\ ppc = "done"
    /\ spawned.tag = "Err"
    /\ Len(pipe) > 4
    /\ cst = "reaped"
    /\ pfds = {"log_file"}

\* C30: dropping a CStringArray hands to CString::from_raw exactly the
\* pointers of the pushed strings, each once, and never the null pointer
\* that ends the array.
C30_DropReleasesPushedOnly ==
    (unit = "array" /\ fcall # NoValue) =>
       /\ \A i \in DOMAIN fcall.from_raw : ~fcall.from_raw[i].null
       /\ Len(fcall.from_raw) = Len(fcall.pushed)
       /\ \A i \in DOMAIN fcall.pushed :
            fcall.from_raw[i] = IntoRaw(fcall.pushed[i])

\* C30, the part that holds: the pointers before the last call are those of
\* the pushed strings, each once and in order, and each is released.
C30_PushedReleasedOnce ==
    (unit = "array" /\ fcall # NoValue) =>
       /\ Len(fcall.from_raw) = Len(fcall.pushed) + 1
       /\ \A i \in DOMAIN fcall.pushed :
            /\ fcall.from_raw[i] = IntoRaw(fcall.pushed[i])
            /\ fcall.outcomes[i] = "released"

\* C30: an array of two strings was dropped, and the third call of
\* CString::from_raw got the null pointer.
C30_DroppedWithNull ==
    /\ unit = "array" /\ fcall # NoValue
    /\ fcall.pushed = << <<97>>, <<97, 97>> >>
    /\ fcall.from_raw[3].null

=============================================================================
